---- MODULE Spec2Model ----
(***************************************************************************)
(* Work-history dashboard: the metrics derivation of the yearly table      *)
(* (src/dashboard.py) and the chart builders (src/utils/visualization.py,  *)
(* src/dashboard.py).                                                      *)
(*                                                                         *)
(* Numbers.  Hours are integers.  A percentage that the code formats with  *)
(* one decimal ("{:.1f}%") is held as an integer number of tenths, so      *)
(* "33.3%" is 333; the formatting is the rounding Fmt1 below.              *)
(***************************************************************************)
EXTENDS Integers, Sequences, FiniteSets, TLC

VARIABLES pc, display_df, call, fig, dashboard_data, page

vars == <<pc, display_df, call, fig, dashboard_data, page>>

\* ------------------------------------------------------------------ bounds

\* Most rows a yearly table holds in the model.
MaxRows == 2

\* Most rows a frame handed to the yearly trend chart holds in the model.
MaxYearlyRows == 2

\* Most rows a frame handed to a work-center chart holds in the model.
MaxWorkCenters == 2

\* Most rows the data handed to a customer chart holds in the model.
MaxCustomers == 2

\* Most records of a long customer list, one that is cut to the top
\* customers.
ManyCustomers == 12
ManyWorkCenters == 4
MaxHundredHours == 12
MaxJobs == 6

\* --------------------------------------------------------------- helpers

Abs(x) == IF x < 0 THEN -x ELSE x

Max(a, b) == IF a >= b THEN a ELSE b

\* The largest and the smallest member of a non-empty set of integers.
SetMax(S) == CHOOSE m \in S : \A x \in S : x <= m
SetMin(S) == CHOOSE m \in S : \A x \in S : m <= x

Range(s) == {s[i] : i \in DOMAIN s}

\* The rows in the order a relation gives: <<j, i>> \in before says that
\* rows[j] comes before rows[i]; the relation orders every two indices.
Sorted(rows, before) ==
    LET n == Len(rows)
        Rank(i) == Cardinality({j \in 1..n : <<j, i>> \in before}) + 1
    IN  [r \in 1..n |-> rows[CHOOSE i \in 1..n : Rank(i) = r]]

\* sort_values(col) on integer keys (keys[i] is the key of rows[i]): rows
\* of equal key keep their given order.
SortAscending(rows, keys) ==
    LET Before(j, i) == keys[j] < keys[i] \/ (keys[j] = keys[i] /\ j < i)
    IN  Sorted(rows, {x \in (DOMAIN rows) \X (DOMAIN rows) :
                         Before(x[1], x[2])})

\* ------------------------------------------------------------ fractions

\* A float that the charts compute by division is held as a fraction n/d,
\* d >= 0: d = 0 is what a division by zero leaves, NaN for 0/0 and an
\* infinity otherwise.  Fractions are compared by cross-multiplication.
Q(n, d) == [n |-> n, d |-> d]
IsNaN(a) == a.d = 0 /\ a.n = 0
QLess(a, b) ==
    /\ ~IsNaN(a) /\ ~IsNaN(b)
    /\ IF a.d > 0 /\ b.d > 0 THEN a.n * b.d < b.n * a.d
       ELSE IF a.d = 0 /\ b.d = 0 THEN a.n < 0 /\ b.n > 0
       ELSE IF a.d = 0 THEN a.n < 0
       ELSE b.n > 0
QEq(a, b) == ~IsNaN(a) /\ ~IsNaN(b) /\ ~QLess(a, b) /\ ~QLess(b, a)
QTimes(a, b) == Q(a.n * b.n, a.d * b.d)
QPlus(a, b) == Q(a.n * b.d + b.n * a.d, a.d * b.d)

\* Python's max(a, b): b only when b > a.
QMax(a, b) == IF QLess(a, b) THEN b ELSE a

\* The key of a cell for sorting: a null sorts as NaN.
Key(c) == IF c.null THEN Q(0, 0) ELSE Q(c.v, 1)

\* sort_values(col) on fraction keys: NaN keys last, rows of equal key in
\* their given order.
SortAscendingQ(rows, keys) ==
    LET Before(j, i) ==
            \/ ~IsNaN(keys[j]) /\ IsNaN(keys[i])
            \/ QLess(keys[j], keys[i])
            \/ /\ IsNaN(keys[j]) <=> IsNaN(keys[i])
               /\ ~QLess(keys[i], keys[j]) /\ ~QLess(keys[j], keys[i])
               /\ j < i
    IN  Sorted(rows, {x \in (DOMAIN rows) \X (DOMAIN rows) :
                         Before(x[1], x[2])})

\* SortDescendingQ that leaves the rows as they came: the mutant of
\* SortDescendingQ.
SortDescendingQSkipped(rows, keys) == rows

\* sort_values(col, ascending=False) on fraction keys: NaN keys last, rows
\* of equal key in their given order.
SortDescendingQ(rows, keys) ==
    LET Before(j, i) ==
            \/ ~IsNaN(keys[j]) /\ IsNaN(keys[i])
            \/ QLess(keys[i], keys[j])
            \/ /\ IsNaN(keys[j]) <=> IsNaN(keys[i])
               /\ ~QLess(keys[i], keys[j]) /\ ~QLess(keys[j], keys[i])
               /\ j < i
    IN  Sorted(rows, {x \in (DOMAIN rows) \X (DOMAIN rows) :
                         Before(x[1], x[2])})

\* n/d (d > 0) rounded to the nearest integer, ties to the even neighbour:
\* what "{:.1f}" does to ten times a value that a double holds exactly.
RoundHalfEven(n, d) ==
    LET q == n \div d
        r == n - q * d
    IN  IF 2 * r < d THEN q
        ELSE IF 2 * r > d THEN q + 1
        ELSE IF q % 2 = 0 THEN q ELSE q + 1

\* f"{(num / den * 100):.1f}%" as tenths of a percent.
Fmt1 (num, den) == RoundHalfEven(1000 * num, den)

\* Nothing called and nothing drawn: the chart variables while the table
\* is derived, and the table while a chart is built.
NoCall == [fn |-> "none"]
NoFig == [kind |-> "none"]

\* The dashboard data before get_dashboard_data has run, and the page
\* before the script has written to it.
NotLoaded == [kind |-> "unset"]
NoPage == [state |-> "none", errors |-> <<>>, sections |-> <<>>,
           top_overrun_jobs |-> [shown |-> "none", rows |-> <<>>]]

\* ------------------------------------------------- yearly table: cells

\* A cell of the formatted table, before the numeric conversion: a string
\* that reads as a number ("1,000.0"), one that reads as NaN, or one that no
\* float conversion accepts ("N/A").
NumStr(v) == [k |-> "num", v |-> v]
NanStr == [k |-> "nan", v |-> 0]
BadStr == [k |-> "bad", v |-> 0]

\* A cell after the conversion: a float, a NaN, or (conversion failed for
\* the column) a str.
Float(v) == [t |-> "float", v |-> v]
NaN == [t |-> "nan", v |-> 0]
Str == [t |-> "str", v |-> 0]

\* A percent string: "x.y%" (tenths), "nan%", or a value that
\* pd.to_numeric / .replace rejects.
Pct(tenths) == [k |-> "pct", v |-> tenths]
NanPct == [k |-> "nanpct", v |-> 0]
BadPct == [k |-> "bad", v |-> 0]

\* display_df[col].str.replace(',', '').astype(float), and on failure
\* display_df[col].astype(str): one unparsable cell turns the whole column
\* into strings.
ConvertColumn(col) ==
    IF \E i \in DOMAIN col : col[i].k = "bad"
    THEN [i \in DOMAIN col |-> Str]
    ELSE [i \in DOMAIN col |->
            IF col[i].k = "nan" THEN NaN ELSE Float(col[i].v)]

notnull(c) == c.t # "nan"

\* The Efficiency lambda on one row.  "raise" is the TypeError of comparing
\* or dividing a str.
EfficiencyCell(planned, actual) ==
    IF notnull(actual) /\ notnull(planned)
    THEN IF actual.t = "str" THEN "raise"
         ELSE IF actual.v > 0
              THEN IF planned.t = "str" THEN "raise" ELSE "value"
              ELSE "default"
    ELSE "default"

Efficiency(planned, actual) ==
    IF EfficiencyCell(planned, actual) = "value"
    THEN Pct(Fmt1(planned.v, actual.v))
    ELSE Pct(0)

\* The 'Overrun %' lambda on one row.
OverrunPctCell(planned, actual) ==
    IF notnull(planned)
    THEN IF planned.t = "str" THEN "raise"
         ELSE IF planned.v > 0
              THEN IF actual.t = "str" THEN "raise"
                   ELSE IF actual.t = "nan" THEN "nan" ELSE "value"
              ELSE "default"
    ELSE "default"

\* OverrunPct with an underrun shown as 0.0% instead of a negative
\* percentage: the mutant of OverrunPct.
OverrunPctClamped(planned, actual) ==
    CASE OverrunPctCell(planned, actual) = "value" ->
            Pct(Max(Fmt1(actual.v - planned.v, planned.v), 0))
      [] OverrunPctCell(planned, actual) = "nan" -> NanPct
      [] OTHER -> Pct(0)

OverrunPct(planned, actual) ==
    CASE OverrunPctCell(planned, actual) = "value" ->
            Pct(Fmt1(actual.v - planned.v, planned.v))
      [] OverrunPctCell(planned, actual) = "nan" -> NanPct
      [] OTHER -> Pct(0)

\* pd.to_numeric(s.replace('%', '')): a number of tenths, NaN, or an
\* exception.
to_numeric(s) ==
    CASE s.k = "pct" -> [r |-> "num", v |-> s.v]
      [] s.k = "nanpct" -> [r |-> "nan", v |-> 0]
      [] OTHER -> [r |-> "raise", v |-> 0]

\* a < b on parsed values: any comparison with NaN is false.
Less(a, b) == a.r = "num" /\ b.r = "num" /\ a.v < b.v

\* Trend with the two comparisons exchanged (a rise reads as Improved): the
\* mutant of Trend.
TrendReversed(pcts, i) ==
    LET current == to_numeric(pcts[i])
        previous == to_numeric(pcts[i - 1])
    IN  IF current.r = "raise" \/ previous.r = "raise" THEN "No Data"
        ELSE IF Less(previous, current) THEN "Improved"
        ELSE IF Less(current, previous) THEN "Declined"
        ELSE "No Change"

\* The trend of row i (i > 1) from the 'Overrun %' column.
Trend(pcts, i) ==
    LET current == to_numeric(pcts[i])
        previous == to_numeric(pcts[i - 1])
    IN  IF current.r = "raise" \/ previous.r = "raise" THEN "No Data"
        ELSE IF Less(current, previous) THEN "Improved"
        ELSE IF Less(previous, current) THEN "Declined"
        ELSE "No Change"

\* KeyInsight with the first threshold inclusive (efficiency >= 95): the
\* mutant of KeyInsight.
KeyInsightInclusive(eff, pct) ==
    LET efficiency == to_numeric(eff)
        overrun_pct == to_numeric(pct)
        T(x) == [r |-> "num", v |-> 10 * x]
    IN  IF efficiency.r = "raise" \/ overrun_pct.r = "raise"
        THEN "Insufficient data"
        ELSE IF ~Less(efficiency, T(95)) THEN "Excellent performance"
        ELSE IF Less(T(90), efficiency) THEN "Good resource utilization"
        ELSE IF Less(T(80), efficiency) THEN "Average performance"
        ELSE IF Less(T(25), overrun_pct) THEN "Significant overruns"
        ELSE "Needs improvement"

\* 'Key Insight' of one row from its Efficiency and 'Overrun %' strings.
KeyInsight(eff, pct) ==
    LET efficiency == to_numeric(eff)
        overrun_pct == to_numeric(pct)
        T(x) == [r |-> "num", v |-> 10 * x]
    IN  IF efficiency.r = "raise" \/ overrun_pct.r = "raise"
        THEN "Insufficient data"
        ELSE IF Less(T(95), efficiency) THEN "Excellent performance"
        ELSE IF Less(T(90), efficiency) THEN "Good resource utilization"
        ELSE IF Less(T(80), efficiency) THEN "Average performance"
        ELSE IF Less(T(25), overrun_pct) THEN "Significant overruns"
        ELSE "Needs improvement"

\* ------------------------------------------------ yearly table: inputs

PlannedStrings ==
    {NumStr(v) : v \in {0, 75, 80, 90, 95, 100}} \cup {NanStr, BadStr}

ActualStrings ==
    {NumStr(v) : v \in {0, 90, 100}} \cup {NanStr, BadStr}

\* An 'Overrun %' column that the loader's rows already carry.
SuppliedPct == {Pct(100), BadPct}

NoColumn == <<>>

\* The table of n rows with the given columns, nothing derived yet.
Table(p, a, supplied, o) ==
    [columns |-> {"Planned", "Actual"} \cup
                 (IF supplied THEN {"Overrun %"} ELSE {}),
     Planned |-> p, Actual |-> a,
     Efficiency |-> NoColumn,
     OverrunPct |-> o,
     Trend |-> NoColumn, KeyInsight |-> NoColumn]

\* ---------------------------------------------------------- the deriver

\* The yearly-summary block of the page script: numeric conversion, then
\* the Efficiency, 'Overrun %', Trend and 'Key Insight' columns.
DeriveMetrics ==
    /\ pc = "table"
    /\ UNCHANGED <<call, fig, dashboard_data, page>>
    /\ LET n == Len(display_df.Planned)
           rows == 1..n
           P == ConvertColumn(display_df.Planned)
           A == ConvertColumn(display_df.Actual)
           effRaises == \E i \in rows : EfficiencyCell(P[i], A[i]) = "raise"
           eff == [i \in rows |-> Efficiency(P[i], A[i])]
           supplied == "Overrun %" \in display_df.columns
           pctRaises == ~supplied /\
                        \E i \in rows : OverrunPctCell(P[i], A[i]) = "raise"
           pcts == IF supplied THEN display_df.OverrunPct
                   ELSE [i \in rows |-> OverrunPct(P[i], A[i])]
           converted == [display_df EXCEPT !.Planned = P, !.Actual = A]
       IN  IF n = 0
           THEN /\ pc' = "done"
                /\ UNCHANGED display_df
           ELSE IF effRaises
           THEN /\ pc' = "raised"
                /\ display_df' = converted
           ELSE IF pctRaises
           THEN /\ pc' = "raised"
                /\ display_df' =
                     [converted EXCEPT
                        !.columns = @ \cup {"Efficiency"},
                        !.Efficiency = eff]
           ELSE /\ pc' = "done"
                /\ display_df' =
                     [converted EXCEPT
                        !.columns = @ \cup {"Efficiency", "Overrun %",
                                            "Trend", "Key Insight"},
                        !.Efficiency = eff,
                        !.OverrunPct = pcts,
                        !.Trend = [i \in rows |->
                                     IF i = 1 THEN "" ELSE Trend(pcts, i)],
                        !.KeyInsight = [i \in rows |->
                                          KeyInsight(eff[i], pcts[i])]]

InitDerive ==
    /\ pc = "table"
    /\ call = NoCall
    /\ fig = NoFig
    /\ dashboard_data = NotLoaded
    /\ page = NoPage
    /\ \E n \in 0..MaxRows, supplied \in BOOLEAN :
         \E p \in [1..n -> PlannedStrings], a \in [1..n -> ActualStrings],
            o \in IF supplied THEN [1..n -> SuppliedPct] ELSE {NoColumn} :
            display_df = Table(p, a, supplied, o)

NextDerive == DeriveMetrics

SpecDerive == InitDerive /\ [][NextDerive]_vars

\* ------------------------------------------------------ chart frames

\* A cell of a numeric column: a number or a null (None / NaN).
Val(x) == [null |-> FALSE, v |-> x]
Null == [null |-> TRUE, v |-> 0]

fillna(c, x) == IF c.null THEN Val(x) ELSE c

\* A chart argument: None, or a frame of rows under a set of columns.  A row
\* is a record over all the columns a chart may read; a column that the
\* frame lacks is not in `columns` and its cells are never read.
NoneFrame == [kind |-> "None", columns |-> {}, rows |-> <<>>]
Frame(columns, rows) == [kind |-> "frame", columns |-> columns, rows |-> rows]

\* DataFrame.empty: no rows or no columns.
empty(df) == df.rows = <<>> \/ df.columns = {}

Column(df, col) == [i \in DOMAIN df.rows |-> df.rows[i][col]]

\* df[col] = values, for an existing or a new column.
SetColumn(df, col, values) ==
    [df EXCEPT !.columns = @ \cup {col},
               !.rows = [i \in DOMAIN @ |->
                   [c \in DOMAIN @[i] \cup {col} |->
                       IF c = col THEN values[i] ELSE @[i][c]]]]

\* The figures a chart function returns, and the exception it may leave by.
Placeholder(text) ==
    [kind |-> "placeholder", text |-> text, traces |-> <<>>]
Raised(error) == [kind |-> "raised", error |-> error]
Trace(name, x, y) == [name |-> name, x |-> x, y |-> y]

\* ------------------------------------------------- yearly trend chart

\* burden_rate = 199
burden_rate == 199

YearlyRow(y, p, a, o) ==
    [year |-> y, planned_hours |-> p, actual_hours |-> a,
     overrun_hours |-> o]

\* The guard of the chart: None, empty, or a required column missing.
YearlyNoData(yearly_df) ==
    \/ yearly_df.kind = "None"
    \/ empty(yearly_df)
    \/ ~({"year", "planned_hours", "actual_hours"} \subseteq yearly_df.columns)

\* CleanCell without the max(x, 0): the mutant of CleanCell.
CleanCellFilledOnly(c) == Val(fillna(c, 0).v)

\* fillna(0) then max(x, 0), on one cell.
CleanCell(c) == Val(Max(fillna(c, 0).v, 0))

\* "Clean data": every hours column the frame has, overrun_hours among
\* them, loses its nulls and its negative values.
CleanYearly(plot_df) ==
    [plot_df EXCEPT !.rows = [i \in DOMAIN @ |->
        [col \in DOMAIN @[i] |->
            IF col \in {"planned_hours", "actual_hours", "overrun_hours"}
                       \cap plot_df.columns
            THEN CleanCell(@[i][col])
            ELSE @[i][col]]]]

\* plot_df["overrun_cost"] = plot_df["overrun_hours"] * burden_rate
OverrunCost(plot_df) ==
    SetColumn(plot_df, "overrun_cost",
              [i \in DOMAIN plot_df.rows |->
                  Val(plot_df.rows[i].overrun_hours.v * burden_rate)])

\* The frame left in the order of its input: the mutant of SortByYear.
SortByYearSkipped(plot_df) == plot_df

\* plot_df.sort_values("year")
SortByYear(plot_df) ==
    [plot_df EXCEPT !.rows = SortAscending(@, Column(plot_df, "year"))]

Values(cells) == [i \in DOMAIN cells |-> cells[i].v]

\* Axis ranges are held in tenths, so that 1.2 * m is the integer 12 * m.

\* HoursAxisRange with max_hours taken from actual_hours alone: the mutant
\* of HoursAxisRange.
HoursAxisRangeActualOnly(plot_df) ==
    <<0, 12 * SetMax(Range(Values(Column(plot_df, "actual_hours"))))>>

\* range=[0, max_hours * 1.2]
HoursAxisRange(plot_df) ==
    LET max_hours ==
            Max(SetMax(Range(Values(Column(plot_df, "planned_hours")))),
                SetMax(Range(Values(Column(plot_df, "actual_hours")))))
    IN  <<0, 12 * max_hours>>

\* CostAxisRange always symmetric around zero: the mutant of CostAxisRange.
CostAxisRangeSymmetric(plot_df) ==
    LET costs == Range(Values(Column(plot_df, "overrun_cost")))
        cost_range == 12 * Max(Abs(SetMax(costs)), Abs(SetMin(costs)))
    IN  <<-cost_range, cost_range>>

\* range=[-cost_range if min_cost < 0 else 0, cost_range]
CostAxisRange(plot_df) ==
    LET costs == Range(Values(Column(plot_df, "overrun_cost")))
        max_cost == SetMax(costs)
        min_cost == SetMin(costs)
        cost_range == 12 * Max(Abs(max_cost), Abs(min_cost))
    IN  <<IF min_cost < 0 THEN -cost_range ELSE 0, cost_range>>

create_yearly_trends_chart(yearly_df) ==
    IF YearlyNoData(yearly_df)
    THEN Placeholder("No yearly data available")
    ELSE LET cleaned == CleanYearly(yearly_df)
         IN  IF "overrun_hours" \notin cleaned.columns
             THEN Raised("KeyError")
             ELSE LET plot_df == SortByYear(OverrunCost(cleaned))
                      x == Column(plot_df, "year")
                      y(col) == Values(Column(plot_df, col))
                  IN  [kind |-> "chart",
                       traces |-> <<
                           Trace("Planned Hours", x, y("planned_hours")),
                           Trace("Actual Hours", x, y("actual_hours")),
                           Trace("Overrun Cost", x, y("overrun_cost"))>>,
                       yaxis_range |-> HoursAxisRange(plot_df),
                       yaxis2_range |-> CostAxisRange(plot_df),
                       tickvals |-> x]

\* ------------------------------------------------ work-center ROI chart

WorkCenterRow(w, p, a, o, u) ==
    [work_center |-> w, planned_hours |-> p, actual_hours |-> a,
     overrun_hours |-> o, utilization |-> u]

\* The numeric columns (dtype.kind in 'ifc') a work-center frame may hold.
NumericColumns == {"planned_hours", "actual_hours", "overrun_hours",
                   "utilization"}

\* "Fill NaN values": fillna(0) on every numeric column.
FillNumeric(df) ==
    [df EXCEPT !.rows = [i \in DOMAIN @ |->
        [col \in DOMAIN @[i] |->
            IF col \in NumericColumns \cap df.columns
            THEN fillna(@[i][col], 0)
            ELSE @[i][col]]]]

\* ((actual - planned) / planned * 100) if planned > 0 else 0
overrun_percent(x) ==
    IF x.planned_hours.v > 0
    THEN Q((x.actual_hours.v - x.planned_hours.v) * 100, x.planned_hours.v)
    ELSE Q(0, 1)

\* (planned / actual * 100) if actual > 0 else 100
efficiency_percent(x) ==
    IF x.actual_hours.v > 0
    THEN Q(x.planned_hours.v * 100, x.actual_hours.v)
    ELSE Q(100, 1)

\* "Calculate ROI metrics": the two derived columns, when the frame has both
\* hours columns.
RoiMetrics(df) ==
    IF {"planned_hours", "actual_hours"} \subseteq df.columns
    THEN SetColumn(
             SetColumn(df, "overrun_percent",
                       [i \in DOMAIN df.rows |-> overrun_percent(df.rows[i])]),
             "efficiency",
             [i \in DOMAIN df.rows |-> efficiency_percent(df.rows[i])])
    ELSE df

RECURSIVE SumSeq(_)
SumSeq(s) == IF s = <<>> THEN 0 ELSE Head(s) + SumSeq(Tail(s))

\* WithUtilization that computes the column even when the frame brings
\* one: the mutant of WithUtilization.
WithUtilizationRecomputed(df) ==
    IF "actual_hours" \in df.columns
    THEN LET total_hours == SumSeq(Values(Column(df, "actual_hours")))
         IN  SetColumn(df, "utilization",
                 [i \in DOMAIN df.rows |->
                     IF total_hours >= 0
                     THEN Q(df.rows[i].actual_hours.v * 100, total_hours)
                     ELSE Q(-(df.rows[i].actual_hours.v * 100), -total_hours)])
    ELSE IF "utilization" \in df.columns
    THEN SetColumn(df, "utilization",
             [i \in DOMAIN df.rows |-> Q(df.rows[i].utilization.v, 1)])
    ELSE df

\* "Add utilization if it doesn't exist": actual_hours / total_hours * 100.
\* A utilization column that the frame brings is kept; its numbers are held
\* as fractions over 1 from here on.
WithUtilization(df) ==
    IF "utilization" \notin df.columns /\ "actual_hours" \in df.columns
    THEN LET total_hours == SumSeq(Values(Column(df, "actual_hours")))
         IN  SetColumn(df, "utilization",
                 [i \in DOMAIN df.rows |->
                     IF total_hours >= 0
                     THEN Q(df.rows[i].actual_hours.v * 100, total_hours)
                     ELSE Q(-(df.rows[i].actual_hours.v * 100), -total_hours)])
    ELSE IF "utilization" \in df.columns
    THEN SetColumn(df, "utilization",
             [i \in DOMAIN df.rows |-> Q(df.rows[i].utilization.v, 1)])
    ELSE df

\* "Sort based on selected metric"
RoiSort(df, sort_by) ==
    IF sort_by = "overrun_percent" /\ "overrun_percent" \in df.columns
    THEN [df EXCEPT !.rows =
              SortDescendingQ(@, Column(df, "overrun_percent"))]
    ELSE IF sort_by = "utilization" /\ "utilization" \in df.columns
    THEN [df EXCEPT !.rows = SortDescendingQ(@, Column(df, "utilization"))]
    ELSE IF sort_by = "total_hours" /\ "actual_hours" \in df.columns
    THEN [df EXCEPT !.rows =
              SortDescendingQ(@, [i \in DOMAIN @ |->
                                    Q(@[i].actual_hours.v, 1)])]
    ELSE df

\* OverrunColor with 15 itself still in the warning tier: the mutant of
\* OverrunColor.
OverrunColorInclusive(x) ==
    IF ~QLess(Q(0, 1), x) /\ ~IsNaN(x) THEN "#22c55e"
    ELSE IF ~QLess(Q(15, 1), x) /\ ~IsNaN(x) THEN "#f97316"
    ELSE "#dc2626"

\* '#22c55e' if x <= 0 else ('#f97316' if x < 15 else '#dc2626')
OverrunColor(x) ==
    IF ~QLess(Q(0, 1), x) /\ ~IsNaN(x) THEN "#22c55e"
    ELSE IF QLess(x, Q(15, 1)) THEN "#f97316"
    ELSE "#dc2626"

\* The largest of a non-empty sequence of fractions (Series.max).
QSeqMax(qs) ==
    qs[CHOOSE i \in DOMAIN qs : \A j \in DOMAIN qs : ~QLess(qs[i], qs[j])]

\* Series.median(): the middle of the values that are not NaN, the mean of
\* the two middle ones when their number is even; NaN when there is none.
Median(qs) ==
    LET present == SelectSeq(qs, LAMBDA q : ~IsNaN(q))
        m == Len(present)
        Before(j, i) ==
            \/ QLess(present[j], present[i])
            \/ ~QLess(present[i], present[j]) /\ j < i
        sorted == Sorted(present, {x \in (DOMAIN present) \X (DOMAIN present) :
                                      Before(x[1], x[2])})
    IN  IF m = 0 THEN Q(0, 0)
        ELSE IF m % 2 = 1 THEN sorted[(m + 1) \div 2]
        ELSE QTimes(QPlus(sorted[m \div 2], sorted[m \div 2 + 1]), Q(1, 2))

\* RoiAnnotations with the rows at the median utilization counted as high
\* impact too: the mutant of RoiAnnotations.
RoiAnnotationsInclusive(df) ==
    IF {"overrun_percent", "utilization"} \subseteq df.columns
       /\ Len(df.rows) > 0
    THEN LET median == Median(Column(df, "utilization"))
             high_impact_wcs ==
                 SelectSeq(df.rows, LAMBDA x : ~QLess(x.utilization, median))
         IN  IF Len(high_impact_wcs) > 0
             THEN LET highest_overrun_wc ==
                          SortDescendingQ(high_impact_wcs,
                              [i \in DOMAIN high_impact_wcs |->
                                  high_impact_wcs[i].overrun_percent])[1]
                  IN  <<[x |-> highest_overrun_wc.work_center,
                         y |-> highest_overrun_wc.overrun_percent,
                         text |-> "Highest ROI Potential"]>>
             ELSE <<>>
    ELSE <<>>

\* The "Highest ROI Potential" annotations: none, or one on the row of the
\* largest overrun_percent among the rows above the median utilization.
RoiAnnotations(df) ==
    IF {"overrun_percent", "utilization"} \subseteq df.columns
       /\ Len(df.rows) > 0
    THEN LET median == Median(Column(df, "utilization"))
             high_impact_wcs ==
                 SelectSeq(df.rows, LAMBDA x : QLess(median, x.utilization))
         IN  IF Len(high_impact_wcs) > 0
             THEN LET highest_overrun_wc ==
                          SortDescendingQ(high_impact_wcs,
                              [i \in DOMAIN high_impact_wcs |->
                                  high_impact_wcs[i].overrun_percent])[1]
                  IN  <<[x |-> highest_overrun_wc.work_center,
                         y |-> highest_overrun_wc.overrun_percent,
                         text |-> "Highest ROI Potential"]>>
             ELSE <<>>
    ELSE <<>>

create_workcenter_roi_chart(workcenter_df, sort_by) ==
    IF workcenter_df.kind = "None" \/ empty(workcenter_df)
    THEN Placeholder("No work center data available")
    ELSE LET df == RoiSort(WithUtilization(RoiMetrics(
                       FillNumeric(workcenter_df))), sort_by)
             bars == "overrun_percent" \in df.columns
             line == "utilization" \in df.columns
             overruns == Column(df, "overrun_percent")
         IN  IF (bars \/ line) /\ "work_center" \notin df.columns
             THEN Raised("KeyError")
             ELSE [kind |-> "chart",
                   traces |->
                       (IF bars
                        THEN <<[name |-> "Overrun %",
                                x |-> Column(df, "work_center"),
                                y |-> overruns,
                                marker_color |->
                                    [i \in DOMAIN overruns |->
                                        OverrunColor(overruns[i])],
                                text |->
                                    [i \in DOMAIN overruns |->
                                        RoundHalfEven(10 * overruns[i].n,
                                                      overruns[i].d)]]>>
                        ELSE <<>>)
                       \o
                       (IF line
                        THEN <<Trace("Utilization %",
                                     Column(df, "work_center"),
                                     Column(df, "utilization"))>>
                        ELSE <<>>),
                   yaxis_range |->
                       <<Q(-10, 1),
                         IF bars
                         THEN QMax(Q(100, 1),
                                   QTimes(QSeqMax(overruns), Q(11, 10)))
                         ELSE Q(100, 1)>>,
                   yaxis2_range |-> <<0, 100>>,
                   zero_line |-> Len(df.rows),
                   annotations |-> RoiAnnotations(df)]

\* -------------------------------------------- work-center breakdown chart

WorkCenterNoData(workcenter_df) ==
    \/ workcenter_df.kind = "None"
    \/ empty(workcenter_df)
    \/ ~({"work_center", "planned_hours", "actual_hours", "overrun_hours"}
            \subseteq workcenter_df.columns)

\* fillna(0) and max(x, 0) on the three hours columns.
CleanWorkCenter(df) ==
    [df EXCEPT !.rows = [i \in DOMAIN @ |->
        [col \in DOMAIN @[i] |->
            IF col \in {"planned_hours", "actual_hours", "overrun_hours"}
            THEN CleanCell(@[i][col])
            ELSE @[i][col]]]]

create_workcenter_chart(workcenter_df) ==
    IF WorkCenterNoData(workcenter_df)
    THEN Placeholder("No work center data available")
    ELSE LET sorted ==
                 [workcenter_df EXCEPT !.rows =
                     SortDescendingQ(@, [i \in DOMAIN @ |->
                                           Key(@[i].actual_hours)])]
             df == CleanWorkCenter(sorted)
             x == Column(df, "work_center")
         IN  [kind |-> "chart",
              traces |-> <<
                  Trace("Planned", x, Values(Column(df, "planned_hours"))),
                  Trace("Actual", x, Values(Column(df, "actual_hours"))),
                  Trace("Overrun", x, Values(Column(df, "overrun_hours")))>>]

\* ----------------------------------------------- customer profit chart

CustomerRow(c, l, y, p, a, o, pr, e) ==
    [customer |-> c, list_name |-> l, year |-> y, planned_hours |-> p,
     actual_hours |-> a, overrun_hours |-> o, profitability |-> pr,
     efficiency |-> e]

\* pd.DataFrame(customer_data): of None the empty frame, of a list of
\* records or of a frame the frame of its rows.
DataFrame(data) ==
    IF data.kind = "None" THEN Frame({}, <<>>)
    ELSE Frame(data.columns, data.rows)

\* fillna(0) on the given columns.
FillColumns(df, cols) ==
    [df EXCEPT !.rows = [i \in DOMAIN @ |->
        [col \in DOMAIN @[i] |->
            IF col \in cols THEN fillna(@[i][col], 0) ELSE @[i][col]]]]

create_customer_profit_chart(customer_data) ==
    LET data == DataFrame(customer_data)
        required == {"profitability", "actual_hours", "overrun_hours"}
    IN  IF empty(data) \/ ~(required \subseteq data.columns)
        THEN Placeholder("No customer data available")
        ELSE LET sorted ==
                     [data EXCEPT !.rows =
                         SortAscendingQ(@, [i \in DOMAIN @ |->
                                              Key(@[i].profitability)])]
                 df == FillColumns(sorted, required)
                 x_column == IF "list_name" \in df.columns
                             THEN "list_name" ELSE "customer"
                 profit == Values(Column(df, "profitability"))
             IN  IF x_column \notin df.columns
                 THEN Raised("KeyError")
                 ELSE [kind |-> "chart",
                       traces |-> <<
                           [name |-> "Profit Margin %",
                            x |-> Column(df, x_column),
                            y |-> profit,
                            marker_color |->
                                [i \in DOMAIN profit |->
                                    IF profit[i] < 0 THEN "#dc2626"
                                    ELSE "#22c55e"]],
                           Trace("Actual Hours", Column(df, x_column),
                                 Values(Column(df, "actual_hours"))),
                           Trace("Overrun Hours", Column(df, x_column),
                                 Values(Column(df, "overrun_hours")))>>]

\* ------------------------------------------ simplified customer chart

AllYears == "All Years"

\* The frame with no row filtered out: the mutant of FilterYear.
FilterYearSkipped(df, year_filter) == df

\* df[df['year'] == year_filter]
FilterYear(df, year_filter) ==
    [df EXCEPT !.rows = SelectSeq(@, LAMBDA x : x.year = year_filter)]

\* planned / actual * 100 if actual > 0 else 100 (a null actual is not > 0;
\* a null planned over a positive actual is NaN).
customer_efficiency(x) ==
    IF ~x.actual_hours.null /\ x.actual_hours.v > 0
    THEN IF x.planned_hours.null THEN Q(0, 0)
         ELSE Q(x.planned_hours.v * 100, x.actual_hours.v)
    ELSE Q(100, 1)

\* (planned - actual) / planned * 100 if planned > 0 else 0
customer_profitability(x) ==
    IF ~x.planned_hours.null /\ x.planned_hours.v > 0
    THEN IF x.actual_hours.null THEN Q(0, 0)
         ELSE Q((x.planned_hours.v - x.actual_hours.v) * 100,
                x.planned_hours.v)
    ELSE Q(0, 1)

\* The column set to the computed values when the frame lacks it and has
\* both hours columns; a column that the frame brings is kept, its cells
\* held as fractions (a null as NaN) from here on.
ComputedIfAbsent(df, col, computed) ==
    IF col \in df.columns
    THEN SetColumn(df, col, [i \in DOMAIN df.rows |-> Key(df.rows[i][col])])
    ELSE IF {"planned_hours", "actual_hours"} \subseteq df.columns
    THEN SetColumn(df, col, computed)
    ELSE df

\* "Sort data based on selected column"
CustomerSort(df, sort_by) ==
    IF sort_by = "efficiency" /\ "efficiency" \in df.columns
    THEN [df EXCEPT !.rows = SortDescendingQ(@, Column(df, "efficiency"))]
    ELSE IF sort_by = "planned_hours" /\ "planned_hours" \in df.columns
    THEN [df EXCEPT !.rows =
              SortDescendingQ(@, [i \in DOMAIN @ |->
                                    Key(@[i].planned_hours)])]
    ELSE IF sort_by = "profitability" /\ "profitability" \in df.columns
    THEN [df EXCEPT !.rows = SortDescendingQ(@, Column(df, "profitability"))]
    ELSE df

\* df.iloc[:k] when the frame has more than k rows.
Head_(df, k) ==
    IF Len(df.rows) > k THEN [df EXCEPT !.rows = SubSeq(@, 1, k)] ELSE df

\* Series.max() of fractions: the largest that is not NaN, NaN if none is.
QSeriesMax(qs) ==
    LET present == SelectSeq(qs, LAMBDA q : ~IsNaN(q))
    IN  IF present = <<>> THEN Q(0, 0) ELSE QSeqMax(present)

\* '#22c55e' if x >= 100 else ('#f97316' if x >= 85 else '#dc2626')
EfficiencyColor(x) ==
    IF ~IsNaN(x) /\ ~QLess(x, Q(100, 1)) THEN "#22c55e"
    ELSE IF ~IsNaN(x) /\ ~QLess(x, Q(85, 1)) THEN "#f97316"
    ELSE "#dc2626"

\* f"{x:.1f}%" of a fraction.
PctText(x) ==
    IF x.d = 0 THEN NanPct ELSE Pct(RoundHalfEven(10 * x.n, x.d))

create_simplified_customer_chart(customer_data, year_filter, sort_by, max_customers) ==
    IF customer_data.kind = "frame"
    THEN Raised("ValueError")
    ELSE IF customer_data.kind = "None" \/ Len(customer_data.rows) = 0
    THEN Placeholder("No customer data available")
    ELSE
    LET data == DataFrame(customer_data)
        filtered == IF year_filter # AllYears /\ "year" \in data.columns
                    THEN FilterYear(data, year_filter)
                    ELSE data
    IN  IF empty(filtered)
        THEN Placeholder(<<"No customer data available for", year_filter>>)
        ELSE
        LET rows == DOMAIN filtered.rows
            df == Head_(CustomerSort(
                      ComputedIfAbsent(
                          ComputedIfAbsent(filtered, "efficiency",
                              [i \in rows |->
                                  customer_efficiency(filtered.rows[i])]),
                          "profitability",
                          [i \in rows |->
                              customer_profitability(filtered.rows[i])]),
                      sort_by), max_customers)
            customer_col == IF "list_name" \in df.columns
                            THEN "list_name" ELSE "customer"
            bars == "efficiency" \in df.columns
            planned == "planned_hours" \in df.columns
            actual == "actual_hours" \in df.columns
            eff == Column(df, "efficiency")
            keys(col) == [i \in DOMAIN df.rows |-> Key(df.rows[i][col])]
        IN  IF (bars \/ planned \/ actual) /\ customer_col \notin df.columns
            THEN Raised("KeyError")
            ELSE [kind |-> "chart",
                  title |-> year_filter,
                  traces |->
                      (IF bars
                       THEN <<[name |-> "Efficiency %",
                               x |-> Column(df, customer_col),
                               y |-> eff,
                               marker_color |->
                                   [i \in DOMAIN eff |->
                                       EfficiencyColor(eff[i])],
                               text |->
                                   [i \in DOMAIN eff |-> PctText(eff[i])]]>>
                       ELSE <<>>)
                      \o
                      (IF planned
                       THEN <<Trace("Planned Hours",
                                    Column(df, customer_col),
                                    keys("planned_hours"))>>
                       ELSE <<>>)
                      \o
                      (IF actual
                       THEN <<Trace("Actual Hours",
                                    Column(df, customer_col),
                                    keys("actual_hours"))>>
                       ELSE <<>>),
                  yaxis_range |->
                      <<Q(0, 1),
                        IF bars
                        THEN QMax(QTimes(QSeriesMax(eff), Q(11, 10)),
                                  Q(110, 1))
                        ELSE Q(110, 1)>>,
                  yaxis2_range |->
                      <<Q(0, 1),
                        IF actual
                        THEN QTimes(QSeriesMax(keys("actual_hours")),
                                    Q(12, 10))
                        ELSE Q(100, 1)>>]

\* -------------------------------------------- enhanced customer chart

\* if len(df) > 10: the rows kept.
TopCustomers == 10

\* if i < 5: the index labels that get a name annotation.
LabelledCustomers == 5

\* The frame of a list of records, each row under its index label 0, 1, ...
Indexed(df) ==
    SetColumn(df, "index", [i \in DOMAIN df.rows |-> i - 1])

\* planned / actual if actual > 0 else 1.0
efficiency_ratio(x) ==
    IF ~x.actual_hours.null /\ x.actual_hours.v > 0
    THEN IF x.planned_hours.null THEN Q(0, 0)
         ELSE Q(x.planned_hours.v, x.actual_hours.v)
    ELSE Q(1, 1)

\* planned / max_planned * 50 + 10; px.scatter rejects a size that is NaN
\* or negative (ValueError).
bubble_size(x, max_planned) ==
    IF x.planned_hours.null \/ IsNaN(max_planned) THEN Q(0, 0)
    ELSE QPlus(QTimes(Q(x.planned_hours.v * max_planned.d, max_planned.n),
                      Q(50, 1)),
               Q(10, 1))

create_enhanced_customer_chart(profit_data, year_filter) ==
    IF profit_data.kind = "frame"
    THEN Raised("ValueError")
    ELSE IF profit_data.kind = "None" \/ Len(profit_data.rows) = 0
    THEN Placeholder("No customer data available")
    ELSE
    LET data == Indexed(DataFrame(profit_data))
        filtered == IF year_filter # AllYears /\ "year" \in data.columns
                    THEN FilterYear(data, year_filter)
                    ELSE data
    IN  IF Len(filtered.rows) = 0
        THEN Placeholder(<<"No customer data available for", year_filter>>)
        ELSE
        LET top == Head_(filtered, TopCustomers)
            hours(col) == [i \in DOMAIN top.rows |-> Key(top.rows[i][col])]
        IN  IF ~({"planned_hours", "actual_hours"} \subseteq top.columns)
            THEN Raised("KeyError")
            ELSE IF "customer" \notin top.columns
            THEN Raised("ValueError")
            ELSE
            LET max_planned == QSeriesMax(hours("planned_hours"))
                df == SetColumn(
                          SetColumn(top, "efficiency",
                              [i \in DOMAIN top.rows |->
                                  efficiency_ratio(top.rows[i])]),
                          "bubble_size",
                          [i \in DOMAIN top.rows |->
                              bubble_size(top.rows[i], max_planned)])
                max_range ==
                    QMax(QTimes(max_planned, Q(11, 10)),
                         QTimes(QSeriesMax(hours("actual_hours")),
                                Q(11, 10)))
                labelled ==
                    SelectSeq(df.rows,
                              LAMBDA x : x.index < LabelledCustomers)
            IN  IF \E i \in DOMAIN df.rows :
                       \/ IsNaN(df.rows[i].bubble_size)
                       \/ QLess(df.rows[i].bubble_size, Q(0, 1))
                THEN Raised("ValueError")
                ELSE
                [kind |-> "chart",
                 title |-> year_filter,
                 traces |-> <<
                     [name |-> "scatter",
                      x |-> hours("planned_hours"),
                      y |-> hours("actual_hours"),
                      color |-> Column(df, "efficiency"),
                      size |-> Column(df, "bubble_size"),
                      hover_name |-> Column(df, "customer")]>>,
                 reference_line |-> max_range,
                 annotations |->
                     [i \in DOMAIN labelled |->
                         [x |-> Key(labelled[i].planned_hours),
                          y |-> Key(labelled[i].actual_hours),
                          text |-> IF "list_name" \in df.columns
                                   THEN labelled[i].list_name
                                   ELSE labelled[i].customer]]
                     \o <<[text |-> "Above line = Overrun"],
                          [text |-> "Below line = Under Budget"]>>]

\* ------------------------------------------- yearly trend chart: inputs

Years == {2022, 2023}
PlannedHours == {Null, Val(1000), Val(1200)}
ActualHours == {Val(-5), Val(1100), Val(1150)}
OverrunHours == {Null, Val(-50), Val(100)}

\* The cells a column holds in the model: its values when the frame has the
\* column, one unread filler when it has not.
CellsOf(columns, col, cells, filler) ==
    IF col \in columns THEN cells ELSE {filler}

YearlyColumns == {"year", "planned_hours", "actual_hours", "overrun_hours"}

\* --------------------------------------------- work-center charts: inputs

WorkCenterColumns == {"work_center", "planned_hours", "actual_hours",
                      "overrun_hours", "utilization"}
WorkCenterPlanned == {Val(0), Val(100)}
WorkCenterActual == {Null, Val(-20), Val(95), Val(110), Val(115), Val(120)}
WorkCenterOverrun == {Val(-10), Val(20)}
WorkCenterUtilization == {Val(30), Val(80)}
SortKeys == {"overrun_percent", "utilization", "total_hours"}

\* The work-center frames of the model: row i is work center i.
WorkCenterFrame(columns, p, a, o, u) ==
    Frame(columns,
          [i \in DOMAIN p |-> WorkCenterRow(i, p[i], a[i], o[i], u[i])])

\* ------------------------------------------------------ efficiency donut

\* max(0, total_actual - total_planned)
total_overrun(total_planned, total_actual) ==
    IF total_actual - total_planned > 0 THEN total_actual - total_planned
    ELSE 0

\* total_underrun as the distance between the totals, never clamped: the
\* mutant of total_underrun.
total_underrun_unclamped(total_planned, total_actual) ==
    Abs(total_planned - total_actual)

\* max(0, total_planned - total_actual)
total_underrun(total_planned, total_actual) ==
    IF total_planned - total_actual > 0 THEN total_planned - total_actual
    ELSE 0

\* on_target without the underrun taken off: the mutant of on_target.
on_target_with_underrun(total_planned, total_actual) ==
    total_planned - total_overrun(total_planned, total_actual)

\* on_target = total_planned - total_overrun - total_underrun
on_target(total_planned, total_actual) ==
    total_planned - total_overrun(total_planned, total_actual)
                  - total_underrun(total_planned, total_actual)

\* f"{(part / total_planned) * 100:.1f}%" when total_planned > 0, and
\* f"{0:.1f}%" otherwise.
DonutPct(part, total_planned) ==
    IF total_planned > 0 THEN Pct(Fmt1(part, total_planned)) ELSE Pct(0)

\* text_color with exactly 80 counted as good: the mutant of text_color.
text_color_from_80(on_target_hours, total_planned) ==
    IF total_planned > 0 /\ on_target_hours * 100 >= 80 * total_planned
    THEN "#38b000"
    ELSE IF total_planned <= 0 \/ on_target_hours * 100 < 60 * total_planned
    THEN "#e5383b"
    ELSE "#f9c74f"

\* "#38b000" if total_efficiency > 80 else "#e5383b" if total_efficiency
\* < 60 else "#f9c74f", on total_efficiency = on_target / total_planned * 100.
text_color(on_target_hours, total_planned) ==
    IF total_planned > 0 /\ on_target_hours * 100 > 80 * total_planned
    THEN "#38b000"
    ELSE IF total_planned <= 0 \/ on_target_hours * 100 < 60 * total_planned
    THEN "#e5383b"
    ELSE "#f9c74f"

create_enhanced_efficiency_chart(total_planned, total_actual) ==
    LET overrun == total_overrun(total_planned, total_actual)
        underrun == total_underrun(total_planned, total_actual)
        target == on_target(total_planned, total_actual)
    IN  [kind |-> "chart",
         traces |-> <<[name |-> "pie",
                       labels |-> <<
                           [text |-> "On Target",
                            pct |-> DonutPct(target, total_planned)],
                           [text |-> "Overrun",
                            pct |-> DonutPct(overrun, total_planned)],
                           [text |-> "Underrun",
                            pct |-> DonutPct(underrun, total_planned)]>>,
                       values |-> <<target, overrun, underrun>>,
                       colors |-> <<"#38b000", "#e5383b", "#3a86ff">>]>>,
         annotations |-> <<[text |-> DonutPct(target, total_planned),
                            color |-> text_color(target, total_planned)]>>]

\* ------------------------------------------------ customer charts: inputs

CustomerColumns == {"customer", "list_name", "year", "planned_hours",
                    "actual_hours", "overrun_hours", "profitability",
                    "efficiency"}

\* The column sets of the customer inputs: no column, every column, every
\* column but one.
CustomerColumnSets ==
    {{}, CustomerColumns} \cup {CustomerColumns \ {c} : c \in CustomerColumns}

CustomerYears == {"2022", "2023"}
CustomerPlanned == {Val(0), Val(100)}
CustomerActual == {Val(0), Val(80)}
CustomerProfitability == {Val(-10), Val(20)}
YearFilters == {AllYears, "2022", "2024"}
CustomerSortKeys == {"efficiency", "planned_hours", "profitability"}
CustomerKinds == {"list", "frame"}

\* Customer data as the routes hand it to the charts: a list of records or
\* a frame.  Row i is customer i, listed under the name 10 + i; its overrun
\* hours follow from its hours, and the efficiency it brings is 125.
CustomerData(kind, columns, y, p, a, pr) ==
    [kind |-> kind, columns |-> columns,
     rows |-> [i \in DOMAIN y |->
                  CustomerRow(i, 10 + i, y[i], p[i], a[i],
                              Val(fillna(a[i], 0).v - p[i].v), pr[i],
                              Val(125))]]

\* ------------------------------------------------------ chart builder

\* AfterCall with the yearly chart cleaning the caller's frame instead of a
\* copy of it: the mutant of AfterCall.
AfterCallInPlace(c) ==
    IF c.fn = "create_yearly_trends_chart" /\ ~YearlyNoData(c.yearly_df)
    THEN [c EXCEPT !.yearly_df = CleanYearly(@)]
    ELSE c

\* The arguments as the caller holds them once the function is left.  Every
\* chart function writes to a frame of its own (yearly_df.copy(),
\* workcenter_df.copy(), the result of sort_values, pd.DataFrame(list)), and
\* the donut takes two numbers: the caller's objects are as they were.
AfterCall(c) == c

Return(result) ==
    /\ fig' = result
    /\ pc' = IF result.kind = "raised" THEN "raised" ELSE "returned"
    /\ call' = AfterCall(call)
    /\ UNCHANGED <<display_df, dashboard_data, page>>

YearlyTrendsChart ==
    /\ pc = "call"
    /\ call.fn = "create_yearly_trends_chart"
    /\ Return(create_yearly_trends_chart(call.yearly_df))

WorkcenterRoiChart ==
    /\ pc = "call"
    /\ call.fn = "create_workcenter_roi_chart"
    /\ Return(create_workcenter_roi_chart(call.workcenter_df, call.sort_by))

WorkcenterChart ==
    /\ pc = "call"
    /\ call.fn = "create_workcenter_chart"
    /\ Return(create_workcenter_chart(call.workcenter_df))

CustomerProfitChart ==
    /\ pc = "call"
    /\ call.fn = "create_customer_profit_chart"
    /\ Return(create_customer_profit_chart(call.customer_data))

SimplifiedCustomerChart ==
    /\ pc = "call"
    /\ call.fn = "create_simplified_customer_chart"
    /\ Return(create_simplified_customer_chart(
                  call.customer_data, call.year_filter, call.sort_by,
                  call.max_customers))

EfficiencyChart ==
    /\ pc = "call"
    /\ call.fn = "create_enhanced_efficiency_chart"
    /\ Return(create_enhanced_efficiency_chart(call.total_planned,
                                               call.total_actual))

EnhancedCustomerChart ==
    /\ pc = "call"
    /\ call.fn = "create_enhanced_customer_chart"
    /\ Return(create_enhanced_customer_chart(call.profit_data,
                                             call.year_filter))

\* CallChart on a figure that the calls share: the traces of the earlier
\* call stay in it.  The mutant of CallChart.
CallChartOnSharedFigure(c) ==
    IF fig.kind = "chart"
    THEN [fig EXCEPT !.traces = @ \o @]
    ELSE fig

\* The chart function a call names, applied to the call's arguments.
CallChart(c) ==
    CASE c.fn = "create_yearly_trends_chart" ->
            create_yearly_trends_chart(c.yearly_df)
      [] c.fn = "create_workcenter_roi_chart" ->
            create_workcenter_roi_chart(c.workcenter_df, c.sort_by)
      [] c.fn = "create_workcenter_chart" ->
            create_workcenter_chart(c.workcenter_df)
      [] c.fn = "create_customer_profit_chart" ->
            create_customer_profit_chart(c.customer_data)
      [] c.fn = "create_simplified_customer_chart" ->
            create_simplified_customer_chart(c.customer_data, c.year_filter,
                                             c.sort_by, c.max_customers)
      [] c.fn = "create_enhanced_customer_chart" ->
            create_enhanced_customer_chart(c.profit_data, c.year_filter)
      [] c.fn = "create_enhanced_efficiency_chart" ->
            create_enhanced_efficiency_chart(c.total_planned, c.total_actual)

\* The page runs again and calls the same function on the arguments it
\* still holds.
CallAgain ==
    /\ pc \in {"returned", "raised"}
    /\ call.fn # "none"
    /\ fig' = CallChart(call)
    /\ pc' = "again"
    /\ call' = AfterCall(call)
    /\ UNCHANGED <<display_df, dashboard_data, page>>

InitYearly ==
    \/ call = [fn |-> "create_yearly_trends_chart", yearly_df |-> NoneFrame]
    \/ \E columns \in SUBSET YearlyColumns, n \in 0..MaxYearlyRows :
         \E y \in [1..n -> CellsOf(columns, "year", Years, 0)],
            p \in [1..n -> CellsOf(columns, "planned_hours", PlannedHours, Null)],
            a \in [1..n -> CellsOf(columns, "actual_hours", ActualHours, Null)],
            o \in [1..n -> CellsOf(columns, "overrun_hours", OverrunHours, Null)] :
            call = [fn |-> "create_yearly_trends_chart",
                    yearly_df |->
                        Frame(columns,
                              [i \in 1..n |-> YearlyRow(y[i], p[i], a[i], o[i])])]

InitWorkcenterRoi ==
    \E sort_by \in SortKeys :
        \/ call = [fn |-> "create_workcenter_roi_chart",
                   workcenter_df |-> NoneFrame, sort_by |-> sort_by]
        \/ \E columns \in SUBSET WorkCenterColumns, n \in 0..MaxWorkCenters :
             \E p \in [1..n -> CellsOf(columns, "planned_hours",
                                       WorkCenterPlanned, Null)],
                a \in [1..n -> CellsOf(columns, "actual_hours",
                                       WorkCenterActual, Null)],
                u \in [1..n -> CellsOf(columns, "utilization",
                                       WorkCenterUtilization, Null)] :
                call = [fn |-> "create_workcenter_roi_chart",
                        workcenter_df |->
                            WorkCenterFrame(columns, p, a,
                                            [i \in 1..n |-> Val(0)], u),
                        sort_by |-> sort_by]

InitWorkcenter ==
    \/ call = [fn |-> "create_workcenter_chart", workcenter_df |-> NoneFrame]
    \/ \E columns \in SUBSET (WorkCenterColumns \ {"utilization"}),
          n \in 0..MaxWorkCenters :
         \E p \in [1..n -> CellsOf(columns, "planned_hours",
                                   WorkCenterPlanned, Null)],
            a \in [1..n -> CellsOf(columns, "actual_hours",
                                   WorkCenterActual, Null)],
            o \in [1..n -> CellsOf(columns, "overrun_hours",
                                   WorkCenterOverrun, Null)] :
            call = [fn |-> "create_workcenter_chart",
                    workcenter_df |->
                        WorkCenterFrame(columns, p, a, o,
                                        [i \in 1..n |-> Null])]

\* The calls of the three customer charts on one input.  The customer
\* profit chart takes the data alone.  The simplified chart takes a list
\* under every year filter and sort key and a frame under the default ones;
\* its max_customers is 1, so that two rows are more than it and one row is
\* not.  The enhanced chart takes a list under every year filter and a
\* frame under the default one.
CustomerCalls(customer_data) ==
    \/ call = [fn |-> "create_customer_profit_chart",
               customer_data |-> customer_data]
    \/ \E year_filter \in YearFilters, sort_by \in CustomerSortKeys :
         /\ customer_data.kind = "frame"
               => year_filter = AllYears /\ sort_by = "efficiency"
         /\ call = [fn |-> "create_simplified_customer_chart",
                    customer_data |-> customer_data,
                    year_filter |-> year_filter,
                    sort_by |-> sort_by,
                    max_customers |-> 1]
    \/ \E year_filter \in YearFilters :
         /\ customer_data.kind = "frame" => year_filter = AllYears
         /\ call = [fn |-> "create_enhanced_customer_chart",
                    profit_data |-> customer_data,
                    year_filter |-> year_filter]

\* The customer charts called with None, or with up to MaxCustomers rows
\* under one of the column sets.
InitCustomer ==
    \/ CustomerCalls(NoneFrame)
    \/ \E kind \in CustomerKinds, columns \in CustomerColumnSets,
          n \in 0..MaxCustomers :
         \E y \in [1..n -> CellsOf(columns, "year", CustomerYears, "")],
            p \in [1..n -> CellsOf(columns, "planned_hours",
                                   CustomerPlanned, Val(0))],
            a \in [1..n -> CellsOf(columns, "actual_hours",
                                   CustomerActual, Null)],
            pr \in [1..n -> CellsOf(columns, "profitability",
                                    CustomerProfitability, Val(0))] :
            CustomerCalls(CustomerData(kind, columns, y, p, a, pr))

\* A chart is about to be called: nothing drawn yet, no table in play.
ChartCall ==
    /\ pc = "call"
    /\ display_df = Table(<<>>, <<>>, FALSE, NoColumn)
    /\ fig = NoFig
    /\ dashboard_data = NotLoaded
    /\ page = NoPage

InitYearlyChart == ChartCall /\ InitYearly

NextYearly == YearlyTrendsChart

\* The yearly trend chart alone.
SpecYearly == InitYearlyChart /\ [][NextYearly]_vars

InitChart ==
    /\ ChartCall
    /\ \/ InitYearly
       \/ InitWorkcenterRoi
       \/ InitWorkcenter
       \/ InitCustomer

NextChart ==
    \/ YearlyTrendsChart
    \/ WorkcenterRoiChart
    \/ WorkcenterChart
    \/ CustomerProfitChart
    \/ SimplifiedCustomerChart
    \/ EnhancedCustomerChart

\* The six chart functions.
SpecChart == InitChart /\ [][NextChart]_vars

InitWorkcenterCharts == ChartCall /\ (InitWorkcenterRoi \/ InitWorkcenter)

NextWorkcenter == WorkcenterRoiChart \/ WorkcenterChart

\* The two work-center charts.
SpecWorkcenter == InitWorkcenterCharts /\ [][NextWorkcenter]_vars

\* The ROI chart on frames of up to ManyWorkCenters rows that bring every
\* column, 100 planned hours in each row: enough rows for several of them
\* to lie above the median utilization.
CalloutActual == {Val(95), Val(115)}
CalloutUtilization == {Val(30), Val(50), Val(80)}

InitRoiCallout ==
    /\ ChartCall
    /\ \E sort_by \in SortKeys, n \in 1..ManyWorkCenters :
         \E a \in [1..n -> CalloutActual], u \in [1..n -> CalloutUtilization] :
            call = [fn |-> "create_workcenter_roi_chart",
                    workcenter_df |->
                        WorkCenterFrame(WorkCenterColumns,
                                        [i \in 1..n |-> Val(100)], a,
                                        [i \in 1..n |-> Val(0)], u),
                    sort_by |-> sort_by]

NextRoiCallout == WorkcenterRoiChart

SpecRoiCallout == InitRoiCallout /\ [][NextRoiCallout]_vars

\* The totals the page passes to the donut: whole hundreds of hours.
TotalHours == {100 * h : h \in 0..MaxHundredHours}

InitEfficiency ==
    \E total_planned \in TotalHours, total_actual \in TotalHours :
        call = [fn |-> "create_enhanced_efficiency_chart",
                total_planned |-> total_planned,
                total_actual |-> total_actual]

InitEfficiencyChart == ChartCall /\ InitEfficiency

NextEfficiency == EfficiencyChart

\* The efficiency donut alone.
SpecEfficiency == InitEfficiencyChart /\ [][NextEfficiency]_vars

InitCustomerCharts == ChartCall /\ InitCustomer

NextCustomer ==
    \/ CustomerProfitChart
    \/ SimplifiedCustomerChart
    \/ EnhancedCustomerChart

\* The three customer charts.
SpecCustomer == InitCustomerCharts /\ [][NextCustomer]_vars

\* A long list of customer records of one year, all with 100 planned and 80
\* actual hours and a profitability of 20, but for one record without
\* planned hours and one record with the profitability -10; the records
\* bring no efficiency.  It goes to the simplified chart with
\* max_customers = 10 under every sort key, and to the enhanced chart.
InitLongList ==
    /\ ChartCall
    /\ \E n \in (ManyCustomers - 3)..ManyCustomers :
         \E k1 \in 1..n, k2 \in 1..n :
            LET customer_data ==
                    CustomerData("list", CustomerColumns \ {"efficiency"},
                        [i \in 1..n |-> "2022"],
                        [i \in 1..n |-> IF i = k1 THEN Val(0) ELSE Val(100)],
                        [i \in 1..n |-> Val(80)],
                        [i \in 1..n |-> IF i = k2 THEN Val(-10) ELSE Val(20)])
            IN  \/ \E sort_by \in CustomerSortKeys :
                     call = [fn |-> "create_simplified_customer_chart",
                             customer_data |-> customer_data,
                             year_filter |-> AllYears,
                             sort_by |-> sort_by,
                             max_customers |-> 10]
                \/ call = [fn |-> "create_enhanced_customer_chart",
                           profit_data |-> customer_data,
                           year_filter |-> AllYears]

NextLongList == SimplifiedCustomerChart \/ EnhancedCustomerChart

\* The two charts that cut a long customer list.
SpecLongList == InitLongList /\ [][NextLongList]_vars

InitHours == ChartCall /\ (InitYearly \/ InitWorkcenter)

NextHours == YearlyTrendsChart \/ WorkcenterChart

\* The two charts that plot planned and actual hours as they come.
SpecHours == InitHours /\ [][NextHours]_vars

InitTwice ==
    \/ InitYearlyChart
    \/ InitRoiCallout
    \/ InitLongList
    \/ InitEfficiencyChart

NextTwice ==
    \/ YearlyTrendsChart
    \/ WorkcenterRoiChart
    \/ SimplifiedCustomerChart
    \/ EnhancedCustomerChart
    \/ EfficiencyChart
    \/ CallAgain

\* Chart functions called, and called once more on the same arguments.
SpecTwice == InitTwice /\ [][NextTwice]_vars

InitOverrun == InitDerive \/ (ChartCall /\ InitWorkcenterRoi)

NextOverrun == DeriveMetrics \/ WorkcenterRoiChart

\* The two places that derive an overrun percentage: the yearly table and
\* the work-center ROI chart.
SpecOverrun == InitOverrun /\ [][NextOverrun]_vars

\* ------------------------------------------------- the dashboard page

\* The five loaders in the order get_dashboard_data calls them, under the
\* keys their values get in the returned dict.
Loaders == <<"yearly_summary", "summary_metrics", "customer_data",
             "workcenter_data", "top_overruns">>

\* What a loader does when it is called: it raises, or it returns a value.
Raises == [raises |-> TRUE, value |-> "none"]
Returns(value) == [raises |-> FALSE, value |-> value]

\* get_dashboard_data with an except clause that keeps what was loaded
\* before the exception: the mutant of get_dashboard_data.
get_dashboard_data_partial(loaders) ==
    [kind |-> "dict",
     items |-> [k \in {l \in Range(Loaders) : ~loaders[l].raises} |->
                   loaders[k].value]]

\* try: the five loads and the dict of their values; except Exception:
\* st.error(...) and return None.
get_dashboard_data(loaders) ==
    IF \E k \in Range(Loaders) : loaders[k].raises
    THEN [kind |-> "None"]
    ELSE [kind |-> "dict",
          items |-> [k \in Range(Loaders) |-> loaders[k].value]]

\* A job record of the top-overruns list.  A job number is held as the
\* parts it is written from, here "JO", a year and a serial number.
Job(job_number, planned_hours, overrun_hours) ==
    [job_number |-> job_number, part_name |-> "part",
     planned_hours |-> planned_hours, overrun_hours |-> overrun_hours]

\* selected_year in job['job_number'] (hasattr(job, 'year') is False for a
\* dict): the year is one of the parts of the job number.
YearInJobNumber(selected_year, job) ==
    \E i \in DOMAIN job.job_number : job.job_number[i] = selected_year

\* filtered_overruns
filtered_overruns(top_overruns, selected_year) ==
    IF selected_year # AllYears
    THEN SelectSeq(top_overruns,
                   LAMBDA job : YearInJobNumber(selected_year, job))
    ELSE top_overruns

\* filtered_overruns[:5] if len(filtered_overruns) > 5 else filtered_overruns
TopJobs == 5

\* (job["overrun_hours"] / job["planned_hours"] * 100)
\* if job["planned_hours"] > 0 else 0
job_overrun_percent(job) ==
    IF job.planned_hours > 0
    THEN Q(job.overrun_hours * 100, job.planned_hours)
    ELSE Q(0, 1)

\* A row of the jobs table: the job number and the overrun percentage that
\* goes into the "Overrun %" cell.
JobRow(job_number, percent) ==
    [job_number |-> job_number, overrun_percent |-> percent]

\* jobs_data: a row for each of the first five filtered jobs.
jobs_data(top_overruns, selected_year) ==
    LET filtered == filtered_overruns(top_overruns, selected_year)
        top == IF Len(filtered) > TopJobs
               THEN SubSeq(filtered, 1, TopJobs) ELSE filtered
    IN  [i \in DOMAIN top |->
            JobRow(top[i].job_number, job_overrun_percent(top[i]))]

\* "Mock data as fallback": the five rows the page shows when the loader's
\* list is empty.
MockJobs ==
    <<JobRow(<<"JO", "25647">>, Q(805, 10)),
      JobRow(<<"JO", "35623">>, Q(216, 10)),
      JobRow(<<"JO", "34280">>, Q(309, 10)),
      JobRow(<<"JO", "36697">>, Q(211, 10)),
      JobRow(<<"JO", "34924">>, Q(227, 10))>>

\* The "Top Overrun Jobs" block: the table of jobs_data, an information
\* line when the filter leaves no job, the mock table when the list is
\* empty.
TopOverrunJobs(top_overruns, selected_year) ==
    IF top_overruns # <<>>
    THEN LET rows == jobs_data(top_overruns, selected_year)
         IN  IF rows # <<>>
             THEN [shown |-> "table", rows |-> rows]
             ELSE [shown |-> "info", rows |-> <<>>]
    ELSE [shown |-> "table", rows |-> MockJobs]

\* The page script after the load: the sections under "if data:", or the
\* error of the else branch.
RenderedPage(loaded, selected_year) ==
    IF loaded.kind = "dict" /\ DOMAIN loaded.items # {}
    THEN [page EXCEPT
             !.state = "dashboard",
             !.sections = <<"Summary Metrics", "Yearly Breakdown",
                            "Customer Profit Analysis",
                            "Work Center Analysis", "Efficiency Breakdown",
                            "Top Overrun Jobs", "5-Year Hours Trend">>,
             !.top_overrun_jobs =
                 IF "top_overruns" \in DOMAIN loaded.items
                 THEN TopOverrunJobs(loaded.items.top_overruns,
                                     selected_year)
                 ELSE [shown |-> "table", rows |-> MockJobs]]
    ELSE [page EXCEPT
             !.state = "failed",
             !.errors = Append(@, "Failed to load dashboard data")]

\* data = get_dashboard_data()
GetDashboardData ==
    /\ pc = "load"
    /\ dashboard_data' = get_dashboard_data(call.loaders)
    /\ page' = IF dashboard_data'.kind = "None"
               THEN [page EXCEPT !.errors = Append(@, "Error loading data")]
               ELSE page
    /\ pc' = "loaded"
    /\ UNCHANGED <<display_df, call, fig>>

\* if data: ... else: st.error(...)
RenderPage ==
    /\ pc = "loaded"
    /\ page' = RenderedPage(dashboard_data, call.overrun_year_filter)
    /\ pc' = "rendered"
    /\ UNCHANGED <<display_df, call, fig, dashboard_data>>

\* The runs of the page in the model.  Any of the loaders may raise.  The
\* top-overruns list has up to MaxJobs jobs in rank order, each of 2022 or
\* 2023, the job of one rank without planned hours and the others with 100;
\* the year filter of the jobs table is "All Years", 2022 or 2024.
JobYears == {"2022", "2023"}
OverrunYearFilters == {AllYears, "2022", "2024"}

InitPage ==
    /\ pc = "load"
    /\ display_df = Table(<<>>, <<>>, FALSE, NoColumn)
    /\ fig = NoFig
    /\ dashboard_data = NotLoaded
    /\ page = NoPage
    /\ \E raising \in SUBSET Range(Loaders), n \in 0..MaxJobs :
         \E years \in [1..n -> JobYears], k \in 0..n,
            selected_year \in OverrunYearFilters :
            call = [fn |-> "page",
                    loaders |->
                        [l \in Range(Loaders) |->
                            IF l \in raising THEN Raises
                            ELSE IF l = "top_overruns"
                            THEN Returns([i \in 1..n |->
                                     Job(<<"JO", years[i], ToString(i)>>,
                                         IF i = k THEN 0 ELSE 100,
                                         100 - 10 * i)])
                            ELSE Returns(l)],
                    overrun_year_filter |-> selected_year]

NextPage == GetDashboardData \/ RenderPage

SpecPage == InitPage /\ [][NextPage]_vars

\* ---------------------------------------------------- the whole program

Init == InitDerive \/ InitChart \/ InitEfficiencyChart \/ InitPage

Next == NextDerive \/ NextChart \/ NextEfficiency \/ CallAgain \/ NextPage

Spec == Init /\ [][Next]_vars

\* ------------------------------------------------- claims: the deriver

Derived(col) == col \in display_df.columns /\ pc # "table"

TableRows == 1..Len(display_df.Planned)

IsNumber(c) == c.t = "float"

\* C1: every yearly row whose actual hours are not greater than 0 has the
\* derived efficiency 100.0, whatever its planned hours; a row with actual
\* hours > 0 has planned / actual * 100 (to the one decimal the table keeps).
C1_EfficiencyIs100WithoutActual ==
    Derived("Efficiency") =>
        \A i \in TableRows :
            LET planned == display_df.Planned[i]
                actual == display_df.Actual[i]
            IN  /\ (IsNumber(actual) /\ actual.v <= 0)
                      => display_df.Efficiency[i] = Pct(1000)
                /\ (IsNumber(actual) /\ actual.v > 0 /\ IsNumber(planned))
                      => display_df.Efficiency[i] =
                            Pct(Fmt1(planned.v, actual.v))

\* C2: every row whose planned hours are 0 gets the overrun percentage 0.0,
\* and every row with planned > 0 gets (actual - planned) / planned * 100,
\* negative on underrun: in the yearly table when the column is derived (to
\* the one decimal the table keeps), and in the bars of the work-center ROI
\* chart (exactly, nulls counted as 0).
C2_OverrunPctZeroWithoutPlan ==
    [][/\ (DeriveMetrics /\ "Overrun %" \notin display_df.columns
                         /\ pc' = "done") =>
            \A i \in DOMAIN display_df'.OverrunPct :
                LET planned == display_df'.Planned[i]
                    actual == display_df'.Actual[i]
                    overrun_pct == display_df'.OverrunPct[i]
                IN  /\ (IsNumber(planned) /\ planned.v = 0)
                          => overrun_pct = Pct(0)
                    /\ (IsNumber(planned) /\ planned.v > 0
                                          /\ IsNumber(actual))
                          => overrun_pct =
                                Pct(Fmt1(actual.v - planned.v, planned.v))
       /\ (WorkcenterRoiChart /\ fig'.kind = "chart"
              /\ {"work_center", "planned_hours", "actual_hours"}
                     \subseteq call.workcenter_df.columns) =>
            LET bars == fig'.traces[1]
            IN  /\ bars.name = "Overrun %"
                /\ Len(bars.x) = Len(call.workcenter_df.rows)
                /\ \A j \in DOMAIN bars.x :
                      LET x == call.workcenter_df.rows[bars.x[j]]
                          planned == fillna(x.planned_hours, 0).v
                          actual == fillna(x.actual_hours, 0).v
                      IN  /\ planned = 0 => bars.y[j] = Q(0, 1)
                          /\ planned > 0 =>
                                QEq(bars.y[j],
                                    Q((actual - planned) * 100, planned))
      ]_vars

\* C2 witness: a derived yearly table whose first row has planned hours 0
\* and the percentage 0.0, and whose second row ran 10% under plan.
C2_Witness ==
    /\ pc = "done"
    /\ Len(display_df.Planned) = 2
    /\ display_df.Planned[1] = Float(0)
    /\ display_df.Actual[1] = Float(100)
    /\ display_df.OverrunPct[1] = Pct(0)
    /\ display_df.Planned[2] = Float(100)
    /\ display_df.Actual[2] = Float(90)
    /\ display_df.OverrunPct[2] = Pct(-100)

\* The labels of a trend cell that carries no comparison: the cell the
\* first row keeps and the label of the except branch.
NoDataTrends == {"", "No Data"}

IsPct(s) == s.k = "pct"

\* C3: the first row's trend is NoData; for every later row whose overrun
\* percentage and whose predecessor's (the row just before it in table
\* order) are numbers, the trend is Improved iff the percentage strictly
\* decreased, Declined iff it strictly increased, No Change iff they are
\* equal.
C3_TrendComparesWithPreviousRow ==
    Derived("Trend") =>
        \A i \in TableRows :
            LET pcts == display_df.OverrunPct
                trend == display_df.Trend[i]
            IN  IF i = 1 THEN trend \in NoDataTrends
                ELSE (IsPct(pcts[i]) /\ IsPct(pcts[i - 1])) =>
                        /\ trend = "Improved" <=> pcts[i].v < pcts[i - 1].v
                        /\ trend = "Declined" <=> pcts[i].v > pcts[i - 1].v
                        /\ trend = "No Change" <=> pcts[i].v = pcts[i - 1].v

\* C3 witness: a derived table whose second row improved on the first.
C3_Witness ==
    /\ Derived("Trend")
    /\ Len(display_df.Trend) >= 2
    /\ display_df.Trend[1] = ""
    /\ display_df.Trend[2] = "Improved"
    /\ IsPct(display_df.OverrunPct[1]) /\ IsPct(display_df.OverrunPct[2])
    /\ display_df.OverrunPct[2].v < display_df.OverrunPct[1].v

\* The insight the ordered list gives for an efficiency and an overrun
\* percentage in tenths of a percent (overrun may be NaN: no number).
InsightByList(eff, pct) ==
    IF eff > 950 THEN "Excellent performance"
    ELSE IF eff > 900 THEN "Good resource utilization"
    ELSE IF eff > 800 THEN "Average performance"
    ELSE IF IsPct(pct) /\ pct.v > 250 THEN "Significant overruns"
    ELSE "Needs improvement"

\* C4: every derived row whose efficiency and overrun percentage parse gets
\* the one label of the ordered first-match list: efficiency > 95 Excellent,
\* else > 90 Good, else > 80 Average, else overrun > 25 Significant
\* overruns, else Needs improvement; 95, 90, 80 and 25 themselves fall to
\* the next branch.
C4_InsightIsFirstMatch ==
    Derived("Key Insight") =>
        \A i \in TableRows :
            LET eff == display_df.Efficiency[i]
                pct == display_df.OverrunPct[i]
            IN  (IsPct(eff) /\ pct.k # "bad") =>
                    display_df.KeyInsight[i] = InsightByList(eff.v, pct)

\* C4 witness: one derived table showing a boundary: efficiency exactly
\* 95.0 labelled Good next to efficiency exactly 80.0 with overrun exactly
\* 25.0 labelled Needs improvement.
C4_Witness ==
    /\ Derived("Key Insight")
    /\ Len(display_df.KeyInsight) = 2
    /\ display_df.Efficiency[1] = Pct(950)
    /\ display_df.KeyInsight[1] = "Good resource utilization"
    /\ display_df.Efficiency[2] = Pct(800)
    /\ display_df.OverrunPct[2] = Pct(250)
    /\ display_df.KeyInsight[2] = "Needs improvement"

\* C5: deriving the metrics never raises because a row holds a malformed
\* planned, actual or overrun field; the row's derived field degrades and
\* every row is still derived.
C5_DeriveNeverRaises ==
    pc # "raised"

\* ------------------------------------------------- claims: every chart

\* The data argument of the chart that was called.
ChartInput ==
    CASE call.fn = "create_yearly_trends_chart" -> call.yearly_df
      [] call.fn \in {"create_workcenter_roi_chart",
                      "create_workcenter_chart"} -> call.workcenter_df
      [] call.fn \in {"create_customer_profit_chart",
                      "create_simplified_customer_chart"} ->
            call.customer_data
      [] call.fn = "create_enhanced_customer_chart" -> call.profit_data

\* The column the customer profit chart and the simplified customer chart
\* take the names from.
NameColumn ==
    IF "list_name" \in ChartInput.columns THEN "list_name" ELSE "customer"

\* The columns a chart reads from its input.
ChartReads ==
    CASE call.fn = "create_yearly_trends_chart" ->
            {"year", "planned_hours", "actual_hours", "overrun_hours"}
      [] call.fn = "create_workcenter_roi_chart" ->
            {"work_center", "planned_hours", "actual_hours"}
      [] call.fn = "create_workcenter_chart" ->
            {"work_center", "planned_hours", "actual_hours",
             "overrun_hours"}
      [] call.fn = "create_customer_profit_chart" ->
            {NameColumn, "profitability", "actual_hours", "overrun_hours"}
      [] call.fn = "create_simplified_customer_chart" ->
            {NameColumn, "planned_hours", "actual_hours"}
      [] call.fn = "create_enhanced_customer_chart" ->
            {"customer", "planned_hours", "actual_hours"}

\* C6: every chart function given None, an input without rows, or an input
\* that lacks a column the chart reads returns a placeholder (no data
\* series, a 'No ... data available' text) and raises no error.
C6_PlaceholderOnUnusableInput ==
    (/\ call.fn # "none" /\ pc # "call"
     /\ \/ ChartInput.kind = "None"
        \/ ChartInput.rows = <<>>
        \/ ~(ChartReads \subseteq ChartInput.columns))
        => /\ pc = "returned"
           /\ fig.kind = "placeholder"
           /\ fig.traces = <<>>

\* ------------------------------------------- claims: yearly trend chart

YearlyCalled == call.fn = "create_yearly_trends_chart" /\ pc # "call"

\* The hours a cell is plotted with: a null as 0, a negative value as 0.
Cleaned(c) == IF c.null \/ c.v < 0 THEN 0 ELSE c.v

\* C7: given rows that have year, planned_hours and actual_hours but no
\* overrun_hours column, the yearly trend chart does not raise: it returns
\* a chart.
C7_ChartWithoutOverrunColumn ==
    (/\ YearlyCalled
     /\ ~YearlyNoData(call.yearly_df)
     /\ "overrun_hours" \notin call.yearly_df.columns)
        => fig.kind = "chart"

\* C8: the secondary-axis series of the yearly trend chart is
\* overrun_hours * 199 for every row, signed: negative overrun hours give
\* a negative cost.
C8_CostIsSignedOverrunTimesRate ==
    (YearlyCalled /\ fig.kind = "chart") =>
        LET rows == SortByYear(call.yearly_df).rows
        IN  fig.traces[3].y =
                [i \in DOMAIN rows |->
                    fillna(rows[i].overrun_hours, 0).v * 199]

\* C9: the primary axis range of the yearly trend chart is [0, 1.2 * M],
\* M the largest cleaned planned_hours or actual_hours value of any row
\* (ranges in tenths: 12 * M).
C9_HoursAxisIsMaxPlus20Percent ==
    (YearlyCalled /\ fig.kind = "chart") =>
        LET rows == call.yearly_df.rows
            M == SetMax({Cleaned(rows[i].planned_hours) : i \in DOMAIN rows}
                        \cup
                        {Cleaned(rows[i].actual_hours) : i \in DOMAIN rows})
        IN  fig.yaxis_range = <<0, 12 * M>>

\* C9 witness: a chart whose largest hours value is a planned one, above
\* every actual value, in a frame that also holds a null and a negative.
C9_Witness ==
    /\ YearlyCalled /\ fig.kind = "chart"
    /\ Len(call.yearly_df.rows) = 2
    /\ call.yearly_df.rows[1].planned_hours = Null
    /\ call.yearly_df.rows[1].actual_hours = Val(-5)
    /\ call.yearly_df.rows[2].planned_hours = Val(1200)
    /\ call.yearly_df.rows[2].actual_hours = Val(1150)
    /\ fig.yaxis_range = <<0, 14400>>

\* The rows of the end-to-end example: 2022 planned 1000, actual 1100,
\* overrun 100; 2023 planned 1200, actual 1150, overrun -50.
ExampleYearly ==
    Frame(YearlyColumns,
          <<YearlyRow(2022, Val(1000), Val(1100), Val(100)),
            YearlyRow(2023, Val(1200), Val(1150), Val(-50))>>)

ExampleCharted ==
    YearlyCalled /\ call.yearly_df = ExampleYearly /\ fig.kind = "chart"

\* C10 as stated: for the example rows the primary axis range is
\* [0, 1380].
C10_ExampleAxisIs1380 ==
    ExampleCharted => fig.yaxis_range = <<0, 13800>>

\* C10 amended: for the example rows the primary axis range is [0, 1440],
\* 1.2 times the largest value 1200 (a planned one).
C10_ExampleAxisIs1440 ==
    (YearlyCalled /\ call.yearly_df = ExampleYearly) =>
        /\ fig.kind = "chart"
        /\ fig.yaxis_range = <<0, 14400>>

\* C10 witness: the example rows charted.
C10_Witness ==
    ExampleCharted /\ fig.traces[1].y = <<1000, 1200>>

\* C11: the cost axis of the yearly trend chart reaches up to
\* 1.2 * max(|max cost|, |min cost|) of the plotted cost series, and down to
\* the negative of that bound if the plotted series has a negative value, to
\* 0 otherwise (ranges in tenths: 12 * the bound).
C11_CostAxisBelowZeroIffNegative ==
    (YearlyCalled /\ fig.kind = "chart") =>
        LET costs == Range(fig.traces[3].y)
            bound == 12 * Max(Abs(SetMax(costs)), Abs(SetMin(costs)))
        IN  /\ fig.traces[3].name = "Overrun Cost"
            /\ fig.yaxis2_range[2] = bound
            /\ fig.yaxis2_range[1] =
                  IF \E c \in costs : c < 0 THEN -bound ELSE 0

\* C11 witness: a chart of two years with overrun hours 100 and -50: the
\* plotted costs are 19900 and 0, the axis runs from 0 to 23880.
C11_Witness ==
    /\ YearlyCalled /\ fig.kind = "chart"
    /\ Len(call.yearly_df.rows) = 2
    /\ call.yearly_df.rows[1].overrun_hours = Val(100)
    /\ call.yearly_df.rows[2].overrun_hours = Val(-50)
    /\ call.yearly_df.rows[1].year < call.yearly_df.rows[2].year
    /\ fig.traces[3].y = <<19900, 0>>
    /\ fig.yaxis2_range = <<0, 238800>>

\* The rows of the charted yearly frame are one per year.
OneRowPerYear ==
    \A i, j \in DOMAIN call.yearly_df.rows :
        call.yearly_df.rows[i].year = call.yearly_df.rows[j].year => i = j

\* The ways to reorder n rows.
Reorderings(n) ==
    {f \in [1..n -> 1..n] : \A i, j \in 1..n : f[i] = f[j] => i = j}

\* C12: the yearly trend chart of rows of the yearly grain (one row per
\* year) has its x values in ascending year order, and every reordering of
\* the input rows gives the same chart: the same x sequence and the same
\* planned, actual and cost series.
C12_ChartIgnoresInputOrder ==
    (YearlyCalled /\ fig.kind = "chart" /\ OneRowPerYear) =>
        LET rows == call.yearly_df.rows
            x == fig.traces[1].x
        IN  /\ \A i, j \in DOMAIN x : i < j => x[i] < x[j]
            /\ \A f \in Reorderings(Len(rows)) :
                  create_yearly_trends_chart(
                      Frame(call.yearly_df.columns,
                            [i \in DOMAIN rows |-> rows[f[i]]])) = fig

\* C12 witness: the year 2023 handed in before the year 2022, charted as
\* 2022 then 2023 with each year's own hours.
C12_Witness ==
    /\ YearlyCalled /\ fig.kind = "chart"
    /\ call.yearly_df.rows =
          <<YearlyRow(2023, Val(1200), Val(1150), Val(-50)),
            YearlyRow(2022, Val(1000), Val(1100), Val(100))>>
    /\ fig.traces[1].x = <<2022, 2023>>
    /\ fig.traces[1].y = <<1000, 1200>>
    /\ fig.traces[2].y = <<1100, 1150>>
    /\ fig.traces[3].y = <<19900, 0>>

\* ------------------------------------------------ claims: customer charts

\* One of the two customer charts that take a year filter was called on a
\* list of at least one record.
FilteredChartCalled ==
    /\ call.fn \in {"create_simplified_customer_chart",
                     "create_enhanced_customer_chart"}
    /\ pc # "call"
    /\ ChartInput.kind = "list"
    /\ ChartInput.rows # <<>>

\* The most customers the called chart shows.
CustomerLimit ==
    IF call.fn = "create_simplified_customer_chart"
    THEN call.max_customers ELSE TopCustomers

\* C13: a customer chart given a specific year filter that no row's year
\* matches returns the placeholder whose message names the filter value,
\* with no data series; with the filter 'All Years' no row is removed: the
\* chart shows every row, up to the most customers it shows.
C13_NoMatchGivesPlaceholderForYear ==
    FilteredChartCalled =>
        LET rows == ChartInput.rows
        IN  /\ (/\ call.year_filter # "All Years"
                 /\ "year" \in ChartInput.columns
                 /\ \A i \in DOMAIN rows : rows[i].year # call.year_filter)
                  => /\ pc = "returned"
                     /\ fig.kind = "placeholder"
                     /\ fig.text = <<"No customer data available for",
                                     call.year_filter>>
                     /\ fig.traces = <<>>
            /\ (call.year_filter = "All Years" /\ fig.kind = "chart")
                  => /\ fig.traces # <<>>
                     /\ Len(fig.traces[1].x) =
                           IF Len(rows) > CustomerLimit
                           THEN CustomerLimit ELSE Len(rows)

\* C13 witness: the enhanced chart asked for 2024 on two records of 2022
\* and 2023 answers with the placeholder for 2024.
C13_Witness ==
    /\ FilteredChartCalled
    /\ call.fn = "create_enhanced_customer_chart"
    /\ call.year_filter = "2024"
    /\ ChartInput.columns = CustomerColumns
    /\ Len(ChartInput.rows) = 2
    /\ ChartInput.rows[1].year = "2022"
    /\ ChartInput.rows[2].year = "2023"
    /\ fig = Placeholder(<<"No customer data available for", "2024">>)

\* The sort key of a customer record, as a fraction: the planned hours, the
\* profitability, or planned / actual * 100 (100 without actual hours).
SortKeyOf(x, sort_by) ==
    CASE sort_by = "planned_hours" -> Q(x.planned_hours.v, 1)
      [] sort_by = "profitability" -> Q(x.profitability.v, 1)
      [] sort_by = "efficiency" ->
            IF x.actual_hours.v > 0
            THEN Q(x.planned_hours.v * 100, x.actual_hours.v)
            ELSE Q(100, 1)

\* The customers of the rows ordered descending by the sort key, rows of
\* equal key in input order.
RankedCustomers(rows, sort_by) ==
    LET Ahead(j, i) ==
            \/ QLess(SortKeyOf(rows[i], sort_by), SortKeyOf(rows[j], sort_by))
            \/ /\ QEq(SortKeyOf(rows[i], sort_by), SortKeyOf(rows[j], sort_by))
               /\ j < i
        Place(i) == Cardinality({j \in DOMAIN rows : Ahead(j, i)}) + 1
    IN  [r \in DOMAIN rows |->
            rows[CHOOSE i \in DOMAIN rows : Place(i) = r].customer]

\* The customers a customer chart shows, in the order it shows them (the
\* simplified chart names them by list_name, which is 10 + customer, when
\* the records have one).
ShownCustomers ==
    IF call.fn = "create_enhanced_customer_chart"
    THEN fig.traces[1].hover_name
    ELSE IF "list_name" \in ChartInput.columns
    THEN [j \in DOMAIN fig.traces[1].x |-> fig.traces[1].x[j] - 10]
    ELSE fig.traces[1].x

\* C14: a customer chart with max_customers = 10 on a list of complete
\* records shows exactly 10 customers when there are more than 10 rows,
\* namely the first 10 of the rows ordered descending by the sort key (ties
\* in input order), and every row when there are at most 10.  The enhanced
\* chart has no sort key argument: its key is the profitability its code
\* names.
C14_TopTenBySortKey ==
    (/\ FilteredChartCalled
     /\ CustomerLimit = 10
     /\ ChartInput.columns = CustomerColumns \ {"efficiency"}) =>
        LET rows == ChartInput.rows
            sort_by == IF call.fn = "create_simplified_customer_chart"
                       THEN call.sort_by ELSE "profitability"
            shown == IF Len(rows) > 10 THEN 10 ELSE Len(rows)
        IN  /\ fig.kind = "chart"
            /\ Len(ShownCustomers) = shown
            /\ Range(ShownCustomers) =
                  Range(SubSeq(RankedCustomers(rows, sort_by), 1, shown))

\* The efficiency a customer chart plots for the customers it shows: the
\* bars of the simplified chart (in percent), the colours of the enhanced
\* chart (as a ratio).
PlottedEfficiency ==
    IF call.fn = "create_enhanced_customer_chart"
    THEN fig.traces[1].color
    ELSE fig.traces[1].y

\* C15: a customer chart plots for every customer it shows the efficiency
\* the record brings, unchanged, when the records carry one; otherwise
\* planned / actual (times 100 in the chart that plots percent), and 1.0
\* (100%) when the actual hours are 0.
C15_EfficiencyComputedOnlyIfAbsent ==
    (/\ FilteredChartCalled /\ fig.kind = "chart"
     /\ \/ "efficiency" \in ChartInput.columns
        \/ {"planned_hours", "actual_hours"} \subseteq ChartInput.columns) =>
        LET unit == IF call.fn = "create_enhanced_customer_chart"
                    THEN 1 ELSE 100
        IN  \A j \in DOMAIN ShownCustomers :
                LET x == ChartInput.rows[ShownCustomers[j]]
                    expected ==
                        IF "efficiency" \in ChartInput.columns
                        THEN Q(x.efficiency.v, 1)
                        ELSE IF x.actual_hours.v = 0
                        THEN Q(unit, 1)
                        ELSE Q(x.planned_hours.v * unit, x.actual_hours.v)
                IN  QEq(PlottedEfficiency[j], expected)

\* --------------------------------------------- claims: work-center charts

\* The ROI chart was called and drew its overrun bars.
RoiBarsDrawn ==
    /\ call.fn = "create_workcenter_roi_chart" /\ pc # "call"
    /\ fig.kind = "chart"
    /\ fig.traces # <<>>
    /\ fig.traces[1].name = "Overrun %"

\* C16: every overrun bar of the work-center ROI chart has exactly one of
\* three colours: the good one when overrun_percent <= 0, the warning one
\* when 0 < overrun_percent < 15, the bad one when overrun_percent >= 15.
C16_BarColourByThreeTiers ==
    RoiBarsDrawn =>
        LET bars == fig.traces[1]
        IN  \A j \in DOMAIN bars.y :
                LET x == bars.y[j]
                    colour == bars.marker_color[j]
                IN  /\ colour \in {"#22c55e", "#f97316", "#dc2626"}
                    /\ colour = "#22c55e" <=> ~QLess(Q(0, 1), x)
                    /\ colour = "#f97316" <=>
                          QLess(Q(0, 1), x) /\ QLess(x, Q(15, 1))
                    /\ colour = "#dc2626" <=> ~QLess(x, Q(15, 1))

\* C16 witness: bars of 15 and -5 percent, the first in the bad colour, the
\* second in the good one.
C16_Witness ==
    /\ RoiBarsDrawn
    /\ Len(fig.traces[1].y) = 2
    /\ QEq(fig.traces[1].y[1], Q(15, 1))
    /\ QEq(fig.traces[1].y[2], Q(-5, 1))
    /\ fig.traces[1].marker_color = <<"#dc2626", "#22c55e">>

\* A sequence of fractions in non-increasing order.
NonIncreasingQ(qs) ==
    \A j \in DOMAIN qs : j > 1 => ~QLess(qs[j - 1], qs[j])

\* The trace of a name in the figure, as a sequence of none or one.
TracesNamed(name) == SelectSeq(fig.traces, LAMBDA t : t.name = name)

\* The actual_hours of the frame that was passed, nulls filled with 0, in
\* the order of the work centers on an x axis.
ActualAlong(x) ==
    [j \in DOMAIN x |->
        Q(fillna(call.workcenter_df.rows[x[j]].actual_hours, 0).v, 1)]

\* C17: both work-center charts plot their rows in non-increasing order of
\* the chosen key, read on the values that are plotted: the ROI chart by
\* overrun_percent, by utilization or by actual_hours as sort_by says, the
\* breakdown chart by its actual hours after null filling and clamping.
C17_RowsInNonIncreasingKeyOrder ==
    /\ (/\ call.fn = "create_workcenter_roi_chart" /\ pc # "call"
        /\ fig.kind = "chart")
       => /\ call.sort_by = "overrun_percent"
             => \A t \in Range(TracesNamed("Overrun %")) :
                    NonIncreasingQ(t.y)
          /\ call.sort_by = "utilization"
             => \A t \in Range(TracesNamed("Utilization %")) :
                    NonIncreasingQ(t.y)
          /\ (/\ call.sort_by = "total_hours"
              /\ "actual_hours" \in call.workcenter_df.columns)
             => \A j \in DOMAIN fig.traces :
                    NonIncreasingQ(ActualAlong(fig.traces[j].x))
    /\ (/\ call.fn = "create_workcenter_chart" /\ pc # "call"
        /\ fig.kind = "chart")
       => \A t \in Range(TracesNamed("Actual")) :
              \A j \in DOMAIN t.y : j > 1 => t.y[j - 1] >= t.y[j]

\* C17 witness: the breakdown chart of a work center with -20 actual hours
\* followed by one with 115 plots the second first, and the first at 0.
C17_Witness ==
    /\ call.fn = "create_workcenter_chart" /\ pc # "call"
    /\ fig.kind = "chart"
    /\ Values(Column(call.workcenter_df, "actual_hours")) = <<-20, 115>>
    /\ fig.traces[2].x = <<2, 1>>
    /\ fig.traces[2].y = <<115, 0>>

\* The sum of a sequence of fractions.
RECURSIVE SumQ(_)
SumQ(qs) == IF qs = <<>> THEN Q(0, 1) ELSE QPlus(Head(qs), SumQ(Tail(qs)))

\* The ROI chart was called on a frame and drew its utilization line.
UtilizationDrawn ==
    /\ call.fn = "create_workcenter_roi_chart" /\ pc # "call"
    /\ fig.kind = "chart"
    /\ TracesNamed("Utilization %") # <<>>

\* C18: the utilization the ROI chart plots is, for a frame without a
\* utilization column, actual_hours / sum(actual_hours) * 100 of each row,
\* summing to 100 when the total is positive; for a frame with the column
\* it is the value the frame brought.
C18_UtilizationIsShareOfActual ==
    UtilizationDrawn =>
        LET line == TracesNamed("Utilization %")[1]
            df == call.workcenter_df
            total == SumSeq([i \in DOMAIN df.rows |->
                                fillna(df.rows[i].actual_hours, 0).v])
        IN  IF "utilization" \in df.columns
            THEN \A j \in DOMAIN line.y :
                     QEq(line.y[j], Q(df.rows[line.x[j]].utilization.v, 1))
            ELSE /\ \A j \in DOMAIN line.y :
                        LET actual == ActualAlong(line.x)[j].n
                        IN  IF total > 0
                            THEN QEq(line.y[j], Q(actual * 100, total))
                            ELSE IF total < 0
                            THEN QEq(line.y[j], Q(-(actual * 100), -total))
                            ELSE line.y[j] = Q(actual * 100, 0)
                 /\ total > 0 => QEq(SumQ(line.y), Q(100, 1))

\* C18 witness: two work centers of 95 and 115 actual hours and no
\* utilization column are plotted at 9500/210 and 11500/210 percent.
C18_Witness ==
    /\ UtilizationDrawn
    /\ "utilization" \notin call.workcenter_df.columns
    /\ call.sort_by = "overrun_percent"
    /\ "planned_hours" \notin call.workcenter_df.columns
    /\ Values(Column(call.workcenter_df, "actual_hours")) = <<95, 115>>
    /\ LET line == TracesNamed("Utilization %")[1]
       IN  /\ line.x = <<1, 2>>
           /\ QEq(line.y[1], Q(9500, 210))
           /\ QEq(line.y[2], Q(11500, 210))
           /\ QEq(SumQ(line.y), Q(100, 1))

\* C19: the ROI chart carries at most one "Highest ROI Potential" callout:
\* none when no row's utilization is strictly above the median utilization,
\* and otherwise one, on a row above the median whose overrun_percent no
\* other row above the median exceeds.
C19_CalloutOnLargestOverrunAboveMedian ==
    (RoiBarsDrawn /\ UtilizationDrawn) =>
        LET bars == fig.traces[1]
            line == TracesNamed("Utilization %")[1]
            median == Median(line.y)
            above == {j \in DOMAIN line.y : QLess(median, line.y[j])}
        IN  IF above = {}
            THEN fig.annotations = <<>>
            ELSE /\ Len(fig.annotations) = 1
                 /\ fig.annotations[1].text = "Highest ROI Potential"
                 /\ \E j \in above :
                        /\ fig.annotations[1].x = bars.x[j]
                        /\ fig.annotations[1].y = bars.y[j]
                        /\ \A k \in above : ~QLess(bars.y[j], bars.y[k])

\* C19 witness: of four work centers with utilizations 30, 30, 80, 50 and
\* overruns 15, -5, -5, 15 percent, the third and the fourth are above the
\* median of 40 and the callout is on the fourth, at 15 percent.
C19_Witness ==
    /\ RoiBarsDrawn /\ UtilizationDrawn
    /\ Values(Column(call.workcenter_df, "utilization")) = <<30, 30, 80, 50>>
    /\ Values(Column(call.workcenter_df, "actual_hours"))
           = <<115, 95, 95, 115>>
    /\ Len(fig.annotations) = 1
    /\ fig.annotations[1].x = 4
    /\ QEq(fig.annotations[1].y, Q(15, 1))

\* ------------------------------------------------ claims: efficiency donut

\* The donut was called and returned.
DonutDrawn ==
    /\ call.fn = "create_enhanced_efficiency_chart" /\ pc # "call"
    /\ fig.kind = "chart"

\* C20: the donut's three values are, in this order, on_target = planned -
\* overrun - underrun, overrun = max(0, actual - planned) and underrun =
\* max(0, planned - actual), under the labels On Target, Overrun, Underrun;
\* planned 1000 with actual 1200 gives 800, 200, 0 and the center label
\* 80.0%.
C20_DonutSegments ==
    DonutDrawn =>
        LET planned == call.total_planned
            actual == call.total_actual
            overrun == Max(0, actual - planned)
            underrun == Max(0, planned - actual)
            pie == fig.traces[1]
        IN  /\ pie.values = <<planned - overrun - underrun, overrun, underrun>>
            /\ [i \in 1..3 |-> pie.labels[i].text]
                   = <<"On Target", "Overrun", "Underrun">>
            /\ (planned = 1000 /\ actual = 1200)
               => /\ pie.values = <<800, 200, 0>>
                  /\ fig.annotations[1].text = Pct(800)

\* C20 witness: the donut of 1000 planned and 1200 actual hours.
C20_Witness ==
    /\ DonutDrawn
    /\ call.total_planned = 1000 /\ call.total_actual = 1200
    /\ fig.traces[1].values = <<800, 200, 0>>
    /\ fig.annotations[1].text = Pct(800)

\* The center label of the donut, and what it should read: on_target /
\* planned * 100 as a fraction, 0 when planned is 0.
CenterLabel == fig.annotations[1]

CenterEfficiency ==
    LET planned == call.total_planned
        actual == call.total_actual
        target == planned - Max(0, actual - planned)
                          - Max(0, planned - actual)
    IN  IF planned > 0 THEN Q(target * 100, planned) ELSE Q(0, 1)

\* C21: the donut's center label is on_target / planned * 100 to one
\* decimal (0.0 when planned is 0); it is in the good colour when that value
\* is above 80, in the bad colour when it is below 60 and in the neutral
\* colour from 60 to 80, both ends included.
C21_CenterLabelAndColour ==
    DonutDrawn =>
        LET e == CenterEfficiency
            tenths == CenterLabel.text.v
        IN  /\ CenterLabel.text.k = "pct"
            /\ 2 * Abs(10 * e.n - tenths * e.d) <= e.d
            /\ CenterLabel.color =
                   IF QLess(Q(80, 1), e) THEN "#38b000"
                   ELSE IF QLess(e, Q(60, 1)) THEN "#e5383b"
                   ELSE "#f9c74f"
            /\ (QEq(e, Q(80, 1)) \/ QEq(e, Q(60, 1)))
               => CenterLabel.color = "#f9c74f"

\* C21 witness: 500 planned and 700 actual hours leave 300 on target, a
\* label of 60.0% in the neutral colour.
C21_Witness ==
    /\ DonutDrawn
    /\ call.total_planned = 500 /\ call.total_actual = 700
    /\ CenterLabel.text = Pct(600)
    /\ CenterLabel.color = "#f9c74f"

\* C27: the three values of the donut add up to total_planned; the overrun
\* and the underrun are not negative, and at most one of them is not 0.
C27_SegmentsAddUpToPlanned ==
    DonutDrawn =>
        LET values == fig.traces[1].values
        IN  /\ values[1] + values[2] + values[3] = call.total_planned
            /\ values[2] >= 0
            /\ values[3] >= 0
            /\ values[2] = 0 \/ values[3] = 0

\* C27 witness: 300 planned and 100 actual hours give 100 on target, no
\* overrun and 200 of underrun.
C27_Witness ==
    /\ DonutDrawn
    /\ call.total_planned = 300 /\ call.total_actual = 100
    /\ fig.traces[1].values = <<100, 0, 200>>

\* C28: for totals that are not negative the on-target value of the donut
\* lies between 0 and total_planned, and the center percentage between 0
\* and 100.
C28_OnTargetBetweenZeroAndPlanned ==
    (DonutDrawn /\ call.total_planned >= 0 /\ call.total_actual >= 0) =>
        /\ fig.traces[1].values[1] >= 0
        /\ fig.traces[1].values[1] <= call.total_planned
        /\ CenterLabel.text.v >= 0
        /\ CenterLabel.text.v <= 1000

\* --------------------------------------------- claims: calls and inputs

HoursCharted ==
    /\ call.fn \in {"create_yearly_trends_chart", "create_workcenter_chart"}
    /\ pc # "call"
    /\ fig.kind = "chart"

HoursInput ==
    IF call.fn = "create_yearly_trends_chart"
    THEN call.yearly_df ELSE call.workcenter_df

HoursAxis ==
    IF call.fn = "create_yearly_trends_chart" THEN "year" ELSE "work_center"

\* The triples <<x, planned, actual>> the chart plots, and the triples the
\* rows call for: a null or a negative value as 0, any other as it is.
PlottedHours ==
    [j \in DOMAIN fig.traces[1].x |->
        <<fig.traces[1].x[j], fig.traces[1].y[j], fig.traces[2].y[j]>>]

ExpectedHours ==
    [i \in DOMAIN HoursInput.rows |->
        <<HoursInput.rows[i][HoursAxis],
          Cleaned(HoursInput.rows[i].planned_hours),
          Cleaned(HoursInput.rows[i].actual_hours)>>]

\* C24: the planned and actual hours that the yearly chart and the
\* work-center breakdown chart plot are never negative: row by row (in
\* whatever order the chart puts them) a null is plotted as 0, a negative
\* value as 0 and any other value unchanged.
C24_PlottedHoursAreCleaned ==
    HoursCharted =>
        /\ Len(PlottedHours) = Len(ExpectedHours)
        /\ \A t \in Range(PlottedHours) \cup Range(ExpectedHours) :
               Cardinality({j \in DOMAIN PlottedHours : PlottedHours[j] = t})
                   = Cardinality({i \in DOMAIN ExpectedHours :
                                     ExpectedHours[i] = t})
        /\ \A j \in DOMAIN PlottedHours :
               PlottedHours[j][2] >= 0 /\ PlottedHours[j][3] >= 0

\* C24 witness: the breakdown chart of a work center without actual hours
\* and one with -20 plots both at 0 and their 100 planned hours unchanged.
C24_Witness ==
    /\ HoursCharted
    /\ call.fn = "create_workcenter_chart"
    /\ Column(call.workcenter_df, "actual_hours") = <<Null, Val(-20)>>
    /\ fig.traces[1].y = <<100, 100>>
    /\ fig.traces[2].y = <<0, 0>>

\* C25: the breakdown chart plots overrun_hours signed: a negative value
\* stays negative and only a null becomes 0.
C25_OverrunHoursKeepTheirSign ==
    (HoursCharted /\ call.fn = "create_workcenter_chart") =>
        \A j \in DOMAIN fig.traces[3].x :
            fig.traces[3].y[j] =
                fillna(call.workcenter_df.rows[fig.traces[3].x[j]]
                           .overrun_hours, 0).v

\* C30: every point of a yearly trend chart lies inside the axis it is
\* drawn on (ranges in tenths): planned and actual hours between 0 and the
\* upper end of the primary axis, overrun costs between the two ends of the
\* secondary axis.
C30_PointsInsideAxisRanges ==
    (YearlyCalled /\ fig.kind = "chart") =>
        /\ \A t \in 1..2 : \A j \in DOMAIN fig.traces[t].y :
               /\ fig.yaxis_range[1] <= 10 * fig.traces[t].y[j]
               /\ 10 * fig.traces[t].y[j] <= fig.yaxis_range[2]
               /\ fig.yaxis_range[1] = 0
        /\ \A j \in DOMAIN fig.traces[3].y :
               /\ fig.yaxis2_range[1] <= 10 * fig.traces[3].y[j]
               /\ 10 * fig.traces[3].y[j] <= fig.yaxis2_range[2]

\* C30 witness: a chart with 1200 planned hours and 100 overrun hours in
\* one of two rows: the hours axis ends at 1440 and the cost axis, for a
\* cost of 19900, at 23880.
C30_Witness ==
    /\ YearlyCalled /\ fig.kind = "chart"
    /\ Len(fig.traces[1].y) = 2
    /\ 1200 \in Range(fig.traces[1].y)
    /\ 19900 \in Range(fig.traces[3].y)
    /\ fig.yaxis_range = <<0, 14400>>
    /\ fig.yaxis2_range = <<0, 238800>>

\* ------------------------------------------------ claims: dashboard page

Loaded == pc \in {"loaded", "rendered"}

SomeLoaderRaises == \E k \in Range(Loaders) : call.loaders[k].raises

\* C26: when a loader raises, get_dashboard_data returns None, never a
\* record of some of the values, and the page shows the 'Failed to load
\* dashboard data' error and no section; when none raises, the data are the
\* five keys with the values of the loaders, and the page shows its
\* sections.
C26_LoadIsAllOrNothing ==
    /\ (Loaded /\ SomeLoaderRaises) => dashboard_data = [kind |-> "None"]
    /\ (Loaded /\ ~SomeLoaderRaises) =>
           /\ dashboard_data.kind = "dict"
           /\ DOMAIN dashboard_data.items = Range(Loaders)
           /\ \A k \in Range(Loaders) :
                  dashboard_data.items[k] = call.loaders[k].value
    /\ (pc = "rendered" /\ SomeLoaderRaises) =>
           /\ page.state = "failed"
           /\ page.sections = <<>>
           /\ page.top_overrun_jobs.shown = "none"
           /\ "Failed to load dashboard data" \in Range(page.errors)
    /\ (pc = "rendered" /\ ~SomeLoaderRaises) =>
           /\ page.state = "dashboard"
           /\ page.sections # <<>>
           /\ page.errors = <<>>

\* C26 witness: the fifth loader alone raised, after four had returned,
\* and the page shows the failure.
C26_Witness ==
    /\ pc = "rendered"
    /\ call.loaders["top_overruns"].raises
    /\ \A k \in Range(Loaders) \ {"top_overruns"} : ~call.loaders[k].raises
    /\ dashboard_data = [kind |-> "None"]
    /\ page.state = "failed"

\* The jobs of the loader's list that the year filter of the jobs table
\* lets through, in the loader's order.
JobsOfSelectedYear ==
    LET jobs == call.loaders["top_overruns"].value
        selected_year == call.overrun_year_filter
    IN  IF selected_year = AllYears THEN jobs
        ELSE SelectSeq(jobs, LAMBDA job : job.job_number[2] = selected_year)

\* C29: the jobs table of a loaded page shows at most 5 jobs, the first
\* jobs of the year-filtered list in the loader's order ('All Years'
\* filters no job out), each with overrun_hours / planned_hours * 100 as
\* its overrun percentage when planned_hours > 0, and with 0 otherwise.
C29_TopFiveOfFilteredJobs ==
    (pc = "rendered" /\ page.state = "dashboard") =>
        LET rows == page.top_overrun_jobs.rows
            jobs == JobsOfSelectedYear
        IN  /\ Len(rows) <= 5
            /\ Len(rows) = IF Len(jobs) > 5 THEN 5 ELSE Len(jobs)
            /\ \A i \in DOMAIN rows :
                   /\ i \in DOMAIN jobs
                   /\ rows[i].job_number = jobs[i].job_number
                   /\ IF jobs[i].planned_hours > 0
                      THEN QEq(rows[i].overrun_percent,
                               Q(jobs[i].overrun_hours * 100,
                                 jobs[i].planned_hours))
                      ELSE QEq(rows[i].overrun_percent, Q(0, 1))

====
